---- MODULE Spec2Model ----
(***************************************************************************)
(* Verification model of ag-ui-solid: the AG UI event parser               *)
(* (utils/eventParser.ts) and the useChatStream hook (hooks/useChatStream).*)
(*                                                                         *)
(* Text is a sequence of tokens.  A token is one character, except that a  *)
(* fragment of JSON text may be kept as one token (the transport then cuts *)
(* the text only between tokens).  Message contents and deltas are         *)
(* sequences of characters, so that concatenation is \o.                   *)
(* Timestamps (Date objects) are left out of the messages and tool         *)
(* results: no operation of the hook reads them back.                      *)
(***************************************************************************)
EXTENDS Integers, Sequences, FiniteSets, TLC

VARIABLES
    messages,             \* signal messages: the published Message[]
    isStreaming,          \* signal isStreaming
    error,                \* signal error: a string, or Null
    currentThreadId,      \* signal currentThreadId: a string, or Undefined
    currentRunId,         \* signal currentRunId: a string, or Undefined
    agentState,           \* signal agentState: AgentUndefined or a JSON object
    completedSteps,       \* signal completedSteps: string[]
    pc,                   \* per sendMessage call: where the async function is
    sseBuffer,            \* per call: let sseBuffer
    queue,                \* per call: events of the current chunk not yet handled
    messageAccumulator,   \* per call: MessageAccumulator.messages (a Map)
    toolCallAccumulator,  \* per call: ToolCallAccumulator.toolCalls (a Map)
    wire,                 \* per call: response text written by the server, not yet read
    sent,                 \* number of records the server has written, all calls
    fetches,              \* number of fetch() requests issued
    uuids,                \* number of crypto.randomUUID() values drawn
    onErrorCalls,         \* messages of the Errors passed to options.onError since
                          \* the latest sendMessage call that was accepted
    onMessageCalls,       \* messages passed to options.onMessage
    last,                 \* the last step of the hook other than reading a chunk
    errored,              \* per call: a RUN_ERROR event of its response was handled
    msgTrack,             \* per message id: the events seen for it, and what they spell
    toolTrack,            \* per tool call id: the events seen for it, and what they spell
    toolOrder,            \* per message id: the tool calls started under it, in order
    pv                    \* harness of the pure parser functions

vars == <<messages, isStreaming, error, currentThreadId, currentRunId, agentState,
          completedSteps, pc, sseBuffer, queue, messageAccumulator,
          toolCallAccumulator, wire, sent, fetches, uuids, onErrorCalls,
          onMessageCalls, last, errored, msgTrack, toolTrack, toolOrder, pv>>

hookVars == <<messages, isStreaming, error, currentThreadId, currentRunId, agentState,
              completedSteps, pc, sseBuffer, queue, messageAccumulator,
              toolCallAccumulator, wire, sent, fetches, uuids, onErrorCalls,
              onMessageCalls, last, errored, msgTrack, toolTrack, toolOrder>>

-----------------------------------------------------------------------------
(* Bounds of the model *)

MaxSends == 2       \* sendMessage calls that may be accepted
MaxRecords == 3     \* records the server writes, over all responses
MaxTextRecords == 4 \* the same, when the server writes text message events only
MaxToolRecords == 5 \* the same, when the server writes tool call events only
MaxStateRecords == 3 \* the same, when the server writes state events
MaxRunRecords == 4 \* the same, when the server writes events of every component
MaxStepRecords == 3 \* the same, when the server writes step events
MaxArgsRecords == 4 \* the same, when the server writes tool call arguments
MaxTailRecords == 3 \* the same, when the last line written may lack its newline
MaxChunkRecords == 4 \* the same, when the server writes TEXT_MESSAGE_CHUNK events
MaxInput == 4       \* characters typed into the Composer
MaxSubmits == 2     \* calls of onSend by the Composer
MaxSequence == 3    \* events of a sequence given to validateEventSequence
MaxPending == 2     \* newlines written and not yet read when the server writes again
MaxOperations == 3 \* the operations of a delta given to applyStateDelta
MaxParseRecords == 2 \* records of a stream given to the pure parser

-----------------------------------------------------------------------------
(* JavaScript values *)

Null == "<null>"
Undefined == "<undefined>"

\* x || dflt, for x a string or undefined
OrElse(x, dflt) == IF x = Undefined \/ x = "" THEN dflt ELSE x

\* event.f, for a field that holds a string when present
Field(event, f) == IF f \in DOMAIN event THEN event[f] ELSE Undefined

-----------------------------------------------------------------------------
(* Text helpers: String.prototype.split('\n'), startsWith, slice, trim *)

NL == "\n"

RECURSIVE Split(_)
Split(s) ==
    IF \A i \in 1..Len(s) : s[i] # NL
    THEN <<s>>
    ELSE LET i == CHOOSE j \in 1..Len(s) : s[j] = NL /\ \A k \in 1..(j-1) : s[k] # NL
         IN  <<SubSeq(s, 1, i-1)>> \o Split(SubSeq(s, i+1, Len(s)))

EndsWithNewline(s) == Len(s) > 0 /\ s[Len(s)] = NL

DataPrefix == <<"d", "a", "t", "a", ":", " ">>

StartsWith(line, prefix) ==
    Len(line) >= Len(prefix) /\ SubSeq(line, 1, Len(prefix)) = prefix

Slice(line, n) == SubSeq(line, n+1, Len(line))

WhiteSpace == {" ", "\r", "\t"}

RECURSIVE Trim(_)
Trim(s) ==
    IF s = <<>> THEN s
    ELSE IF s[1] \in WhiteSpace THEN Trim(Tail(s))
    ELSE IF s[Len(s)] \in WhiteSpace THEN Trim(SubSeq(s, 1, Len(s)-1))
    ELSE s

-----------------------------------------------------------------------------
(* JSON.  JSON.parse is modelled on a finite universe of texts: JSONTexts   *)
(* lists every text of the model that is valid JSON, with its value; every *)
(* other text is a SyntaxError.  A JSON object is a record; an absent field *)
(* is a field outside its DOMAIN.  Every "type" of the table is a string.  *)
(* A JSON value that is stored as agent state is written [object |-> t],   *)
(* [prim |-> text] or JSONNull, where the tree t of an object maps the     *)
(* path of each leaf (a sequence of keys) to its text, and the path of     *)
(* each empty object to ObjectMark.  A path of a JSON Patch operation is a *)
(* sequence of tokens, each "/" or a key.                                  *)

JSONNull == [jsonNull |-> TRUE]

EvRunStarted   == [type |-> "RUN_STARTED", threadId |-> "t1", runId |-> "r1"]
EvRunStartedBare == [type |-> "RUN_STARTED"]
EvRunFinished  == [type |-> "RUN_FINISHED"]
EvRunError     == [type |-> "RUN_ERROR", message |-> "Agent failed"]
EvRunErrorBare == [type |-> "RUN_ERROR"]
EvStepStarted  == [type |-> "STEP_STARTED", stepName |-> "s1"]
EvStepFinished == [type |-> "STEP_FINISHED", stepName |-> "s1"]
EvStepFinished2 == [type |-> "STEP_FINISHED", stepName |-> "s2"]
EvStartM1      == [type |-> "TEXT_MESSAGE_START", messageId |-> "m1", role |-> "assistant"]
EvStartM1Sys   == [type |-> "TEXT_MESSAGE_START", messageId |-> "m1", role |-> "system"]
EvStartM2      == [type |-> "TEXT_MESSAGE_START", messageId |-> "m2"]
EvContentM1a   == [type |-> "TEXT_MESSAGE_CONTENT", messageId |-> "m1", delta |-> <<"a">>]
EvContentM1b   == [type |-> "TEXT_MESSAGE_CONTENT", messageId |-> "m1", delta |-> <<"b">>]
EvContentM2a   == [type |-> "TEXT_MESSAGE_CONTENT", messageId |-> "m2", delta |-> <<"a">>]
EvEndM1        == [type |-> "TEXT_MESSAGE_END", messageId |-> "m1"]
EvChunkM1      == [type |-> "TEXT_MESSAGE_CHUNK", messageId |-> "m1", role |-> "user",
                   delta |-> <<"c">>]
EvChunkNoId    == [type |-> "TEXT_MESSAGE_CHUNK", delta |-> <<"c">>]
EvChunkNoId2   == [type |-> "TEXT_MESSAGE_CHUNK", delta |-> <<"d">>]
EvToolStart1   == [type |-> "TOOL_CALL_START", toolCallId |-> "tc1",
                   toolCallName |-> "search", parentMessageId |-> "m1"]
EvToolStart2   == [type |-> "TOOL_CALL_START", toolCallId |-> "tc2",
                   toolCallName |-> "calc", parentMessageId |-> "m1"]
EvToolArgs1    == [type |-> "TOOL_CALL_ARGS", toolCallId |-> "tc1",
                   args |-> <<"{\"query\":\"test\"}">>]
EvToolArgs2    == [type |-> "TOOL_CALL_ARGS", toolCallId |-> "tc2",
                   args |-> <<"{\"x\":\"1\"}">>]
EvToolArgsBad  == [type |-> "TOOL_CALL_ARGS", toolCallId |-> "tc1",
                   args |-> <<"{\"query\":">>]
EvToolArgsMore == [type |-> "TOOL_CALL_ARGS", toolCallId |-> "tc1",
                   args |-> <<"{\"query\":\"again\",\"x\":\"1\"}">>]
EvToolArgsText == [type |-> "TOOL_CALL_ARGS", toolCallId |-> "tc1",
                   args |-> <<"\"ab\"">>]
EvToolEnd1     == [type |-> "TOOL_CALL_END", toolCallId |-> "tc1"]
EvToolResult1  == [type |-> "TOOL_CALL_RESULT", toolCallId |-> "tc1",
                   result |-> "Found 5 results", status |-> "success"]
EvToolResult2  == [type |-> "TOOL_CALL_RESULT", toolCallId |-> "tc2",
                   result |-> "failed", status |-> "error"]
EvSnapshot     == [type |-> "STATE_SNAPSHOT",
                   state |-> [object |-> (<<"counter">> :> "0")]]
EvSnapshotEmpty == [type |-> "STATE_SNAPSHOT", state |-> [prim |-> ""]]
EvDeltaReplace == [type |-> "STATE_DELTA",
                   delta |-> <<[op |-> "replace", path |-> <<"/", "counter">>,
                                value |-> [prim |-> "1"]]>>]
EvDeltaRemoveAbsent == [type |-> "STATE_DELTA",
                        delta |-> <<[op |-> "remove", path |-> <<"/", "x", "/", "y">>]>>]
EvDeltaNoDelta == [type |-> "STATE_DELTA"]
EvUnknown      == [type |-> "UNKNOWN_EVENT", customData |-> "test"]
ObjNoType      == [messageId |-> "m1"]

\* <<text, value>>: the texts that JSON.parse accepts.  A text is a sequence of
\* tokens; the second entry is one JSON text written as three tokens.
JSONTexts == <<
    <<<<"{\"type\":\"RUN_STARTED\",\"threadId\":\"t1\",\"runId\":\"r1\"}">>, EvRunStarted>>,
    <<<<"{", "\"type\":\"RUN_FINISHED\"", "}">>, EvRunFinished>>,
    <<<<"{\"type\":\"RUN_FINISHED\"}">>, EvRunFinished>>,
    <<<<"{\"type\":\"RUN_ERROR\",\"message\":\"Agent failed\"}">>, EvRunError>>,
    <<<<"{\"type\":\"RUN_ERROR\"}">>, EvRunErrorBare>>,
    <<<<"{\"type\":\"STEP_STARTED\",\"stepName\":\"s1\"}">>, EvStepStarted>>,
    <<<<"{\"type\":\"STEP_FINISHED\",\"stepName\":\"s1\"}">>, EvStepFinished>>,
    <<<<"{\"type\":\"STEP_FINISHED\",\"stepName\":\"s2\"}">>, EvStepFinished2>>,
    <<<<"{\"type\":\"TEXT_MESSAGE_START\",\"messageId\":\"m1\",\"role\":\"assistant\"}">>, EvStartM1>>,
    <<<<"{\"type\":\"TEXT_MESSAGE_START\",\"messageId\":\"m1\",\"role\":\"system\"}">>, EvStartM1Sys>>,
    <<<<"{\"type\":\"TEXT_MESSAGE_START\",\"messageId\":\"m2\"}">>, EvStartM2>>,
    <<<<"{\"type\":\"TEXT_MESSAGE_CONTENT\",\"messageId\":\"m1\",\"delta\":\"a\"}">>, EvContentM1a>>,
    <<<<"{\"type\":\"TEXT_MESSAGE_CONTENT\",\"messageId\":\"m1\",\"delta\":\"b\"}">>, EvContentM1b>>,
    <<<<"{\"type\":\"TEXT_MESSAGE_CONTENT\",\"messageId\":\"m2\",\"delta\":\"a\"}">>, EvContentM2a>>,
    <<<<"{\"type\":\"TEXT_MESSAGE_END\",\"messageId\":\"m1\"}">>, EvEndM1>>,
    <<<<"{\"type\":\"TEXT_MESSAGE_CHUNK\",\"messageId\":\"m1\",\"role\":\"user\",\"delta\":\"c\"}">>, EvChunkM1>>,
    <<<<"{\"type\":\"TOOL_CALL_START\",\"toolCallId\":\"tc1\",\"toolCallName\":\"search\",\"parentMessageId\":\"m1\"}">>, EvToolStart1>>,
    <<<<"{\"type\":\"TOOL_CALL_START\",\"toolCallId\":\"tc2\",\"toolCallName\":\"calc\",\"parentMessageId\":\"m1\"}">>, EvToolStart2>>,
    <<<<"{\"type\":\"TOOL_CALL_ARGS\",\"toolCallId\":\"tc1\",\"args\":\"{\\\"query\\\":\\\"test\\\"}\"}">>, EvToolArgs1>>,
    <<<<"{\"type\":\"TOOL_CALL_ARGS\",\"toolCallId\":\"tc2\",\"args\":\"{\\\"x\\\":\\\"1\\\"}\"}">>, EvToolArgs2>>,
    <<<<"{\"type\":\"TOOL_CALL_ARGS\",\"toolCallId\":\"tc1\",\"args\":\"{\\\"query\\\":\"}">>, EvToolArgsBad>>,
    <<<<"{\"type\":\"TOOL_CALL_END\",\"toolCallId\":\"tc1\"}">>, EvToolEnd1>>,
    <<<<"{\"type\":\"TOOL_CALL_RESULT\",\"toolCallId\":\"tc1\",\"result\":\"Found 5 results\",\"status\":\"success\"}">>, EvToolResult1>>,
    <<<<"{\"type\":\"TOOL_CALL_RESULT\",\"toolCallId\":\"tc2\",\"result\":\"failed\",\"status\":\"error\"}">>, EvToolResult2>>,
    <<<<"{\"type\":\"STATE_SNAPSHOT\",\"state\":{\"counter\":\"0\"}}">>, EvSnapshot>>,
    <<<<"{\"type\":\"STATE_SNAPSHOT\",\"state\":\"\"}">>, EvSnapshotEmpty>>,
    <<<<"{\"type\":\"STATE_DELTA\",\"delta\":[{\"op\":\"replace\",\"path\":\"/counter\",\"value\":\"1\"}]}">>, EvDeltaReplace>>,
    <<<<"{\"type\":\"STATE_DELTA\",\"delta\":[{\"op\":\"remove\",\"path\":\"/x/y\"}]}">>, EvDeltaRemoveAbsent>>,
    <<<<"{\"type\":\"STATE_DELTA\"}">>, EvDeltaNoDelta>>,
    <<<<"{\"type\":\"UNKNOWN_EVENT\",\"customData\":\"test\"}">>, EvUnknown>>,
    <<<<"{\"messageId\":\"m1\"}">>, ObjNoType>>,
    <<<<"null">>, JSONNull>>,
    <<<<"{\"query\":\"test\"}">>, [query |-> "test"]>>,
    <<<<"{\"x\":\"1\"}">>, [x |-> "1"]>>,
    <<<<"{\"type\":\"TOOL_CALL_ARGS\",\"toolCallId\":\"tc1\",\"args\":\"{\\\"query\\\":\\\"again\\\",\\\"x\\\":\\\"1\\\"}\"}">>, EvToolArgsMore>>,
    <<<<"{\"type\":\"TOOL_CALL_ARGS\",\"toolCallId\":\"tc1\",\"args\":\"\\\"ab\\\"\"}">>, EvToolArgsText>>,
    <<<<"{\"query\":\"again\",\"x\":\"1\"}">>, [query |-> "again", x |-> "1"]>>,
    <<<<"\"ab\"">>, [prim |-> "ab"]>>,
    <<<<"{\"type\":\"TEXT_MESSAGE_CHUNK\",\"delta\":\"c\"}">>, EvChunkNoId>>,
    <<<<"{\"type\":\"TEXT_MESSAGE_CHUNK\",\"delta\":\"d\"}">>, EvChunkNoId2>>
>>

\* JSON.parse(text): [ok |-> TRUE, value |-> v], or [ok |-> FALSE] for a SyntaxError
JSONParse(text) ==
    IF \E i \in DOMAIN JSONTexts : JSONTexts[i][1] = text
    THEN [ok |-> TRUE,
          value |-> JSONTexts[CHOOSE i \in DOMAIN JSONTexts : JSONTexts[i][1] = text][2]]
    ELSE [ok |-> FALSE]

\* The text of an event of the table (JSON.stringify on the server side)
Stringify(value) ==
    JSONTexts[CHOOSE i \in DOMAIN JSONTexts :
                 /\ JSONTexts[i][2] = value
                 /\ \A j \in 1..(i-1) : JSONTexts[j][2] # value][1]

\* event && typeof event.type === 'string'
HasStringType(value) == value # JSONNull /\ "type" \in DOMAIN value

-----------------------------------------------------------------------------
(* eventParser.ts: parseSSE, parseSSEChunk.  Both return the events and     *)
(* threw, TRUE when an exception escapes the function.                      *)

\* The members of the enumeration EventType that the repository names
EventType ==
    {"RUN_STARTED", "RUN_FINISHED", "RUN_ERROR", "STEP_STARTED", "STEP_FINISHED",
     "TEXT_MESSAGE_START", "TEXT_MESSAGE_CONTENT", "TEXT_MESSAGE_END",
     "TEXT_MESSAGE_CHUNK", "TOOL_CALL_START", "TOOL_CALL_ARGS", "TOOL_CALL_END",
     "TOOL_CALL_RESULT", "STATE_SNAPSHOT", "STATE_DELTA", "MESSAGES_SNAPSHOT",
     "RAW", "CUSTOM"}

\* event && typeof event.type === 'string'
\*       && Object.values(EventType).includes(event.type), as a truth value
validateEvent(event) == HasStringType(event) /\ event.type \in EventType

\* DecodeLine keeping only the payloads that validateEvent accepts
DecodeLine_Validated(line) ==
    IF StartsWith(line, DataPrefix)
    THEN LET jsonData == Trim(Slice(line, 6))
             parsed == JSONParse(jsonData)
         IN  IF jsonData # <<>>
             THEN IF parsed.ok
                  THEN IF validateEvent(parsed.value)
                       THEN [events |-> <<parsed.value>>, threw |-> FALSE]
                       ELSE [events |-> <<>>, threw |-> FALSE]
                  ELSE [events |-> <<>>, threw |-> FALSE]
             ELSE [events |-> <<>>, threw |-> FALSE]
    ELSE [events |-> <<>>, threw |-> FALSE]

\* DecodeLine with JSON.parse outside any try/catch: a SyntaxError escapes
DecodeLine_NoCatch(line) ==
    IF StartsWith(line, DataPrefix)
    THEN LET jsonData == Trim(Slice(line, 6))
             parsed == JSONParse(jsonData)
         IN  IF jsonData # <<>>
             THEN IF parsed.ok
                  THEN IF HasStringType(parsed.value)
                       THEN [events |-> <<parsed.value>>, threw |-> FALSE]
                       ELSE [events |-> <<>>, threw |-> FALSE]
                  ELSE [events |-> <<>>, threw |-> TRUE]
             ELSE [events |-> <<>>, threw |-> FALSE]
    ELSE [events |-> <<>>, threw |-> FALSE]

\* The body of the loop over the lines: the events of one line
DecodeLine(line) ==
    IF StartsWith(line, DataPrefix)
    THEN LET jsonData == Trim(Slice(line, 6))
             parsed == JSONParse(jsonData)
         IN  IF jsonData # <<>>
             THEN IF parsed.ok
                  THEN IF HasStringType(parsed.value)
                       THEN [events |-> <<parsed.value>>, threw |-> FALSE]
                       ELSE [events |-> <<>>, threw |-> FALSE]
                  ELSE [events |-> <<>>, threw |-> FALSE]   \* catch: console.warn
             ELSE [events |-> <<>>, threw |-> FALSE]
    ELSE [events |-> <<>>, threw |-> FALSE]

\* DecodeLines leaving the loop at the first line that carries no event
RECURSIVE DecodeLines_StopAtBad(_)
DecodeLines_StopAtBad(lines) ==
    IF lines = <<>> THEN [events |-> <<>>, threw |-> FALSE]
    ELSE LET first == DecodeLine(Head(lines))
             rest == DecodeLines_StopAtBad(Tail(lines))
         IN  IF first.threw THEN [events |-> first.events, threw |-> TRUE]
             ELSE IF first.events = <<>> /\ Head(lines) # <<>>
             THEN [events |-> <<>>, threw |-> FALSE]
             ELSE [events |-> first.events \o rest.events, threw |-> rest.threw]

\* for (const line of lines): stops at the first line that throws
RECURSIVE DecodeLines(_)
DecodeLines(lines) ==
    IF lines = <<>> THEN [events |-> <<>>, threw |-> FALSE]
    ELSE LET first == DecodeLine(Head(lines))
             rest == DecodeLines(Tail(lines))
         IN  IF first.threw THEN [events |-> first.events, threw |-> TRUE]
             ELSE [events |-> first.events \o rest.events, threw |-> rest.threw]

parseSSE(sseData) == DecodeLines(Split(sseData))

\* The index of the last newline of the text that follows another newline
\* (or starts the text), 0 when there is none
LastBlankLine(text) ==
    LET ends == {k \in 1..Len(text) : text[k] = NL /\ (k = 1 \/ text[k-1] = NL)}
    IN  IF ends = {} THEN 0 ELSE CHOOSE k \in ends : \A j \in ends : j <= k

\* parseSSEChunk decoding up to the last blank line only and keeping the rest
parseSSEChunk_UntilBlankLine(buffer, chunk) ==
    LET combined == buffer \o chunk
        cut == LastBlankLine(combined)
        decoded == DecodeLines(Split(SubSeq(combined, 1, cut)))
    IN  [events |-> decoded.events, buffer |-> SubSeq(combined, cut + 1, Len(combined)),
         threw |-> decoded.threw]

\* parseSSEChunk forgetting the text carried over from the previous chunk
parseSSEChunk_NoBuffer(buffer, chunk) ==
    LET allLines == Split(chunk)
        hasTrailingNewline == EndsWithNewline(chunk)
        newBuffer == IF hasTrailingNewline THEN <<>> ELSE allLines[Len(allLines)]
        lines == IF hasTrailingNewline THEN allLines
                 ELSE SubSeq(allLines, 1, Len(allLines) - 1)
        decoded == DecodeLines(lines)
    IN  [events |-> decoded.events, buffer |-> newBuffer, threw |-> decoded.threw]

parseSSEChunk(buffer, chunk) ==
    LET combined == buffer \o chunk
        allLines == Split(combined)
        hasTrailingNewline == EndsWithNewline(combined)
        newBuffer == IF hasTrailingNewline THEN <<>> ELSE allLines[Len(allLines)]
        lines == IF hasTrailingNewline THEN allLines
                 ELSE SubSeq(allLines, 1, Len(allLines) - 1)
        decoded == DecodeLines(lines)
    IN  [events |-> decoded.events, buffer |-> newBuffer, threw |-> decoded.threw]

-----------------------------------------------------------------------------
(* eventParser.ts: MessageAccumulator and ToolCallAccumulator.  The Map is  *)
(* a function from the ids it holds; an operation returns the map after    *)
(* the call (acc) and its return value: isNull, or the entry (result).     *)

EmptyMap == [k \in {} |-> k]

Truthy(x) == x # Undefined /\ x # ""

\* event.delta inside a string concatenation: undefined prints as "undefined"
DeltaOf(event) ==
    IF "delta" \in DOMAIN event THEN event.delta
    ELSE <<"u", "n", "d", "e", "f", "i", "n", "e", "d">>

UUID(n) == "uuid-" \o ToString(n)

MessageAccumulator_handleStart(acc, event) ==
    LET message == [id |-> Field(event, "messageId"),
                    role |-> OrElse(Field(event, "role"), "assistant"),
                    content |-> <<>>,
                    toolResults |-> <<>>]
    IN  [acc |-> (Field(event, "messageId") :> message) @@ acc,
         isNull |-> FALSE, result |-> message, drawn |-> 0]

\* handleContent assigning the delta instead of appending it
MessageAccumulator_handleContent_Assign(acc, event) ==
    LET messageId == Field(event, "messageId")
    IN  IF messageId \in DOMAIN acc
        THEN LET message == [acc[messageId] EXCEPT !.content = DeltaOf(event)]
             IN  [acc |-> (messageId :> message) @@ acc,
                  isNull |-> FALSE, result |-> message, drawn |-> 0]
        ELSE [acc |-> acc, isNull |-> TRUE, drawn |-> 0]

MessageAccumulator_handleContent(acc, event) ==
    LET messageId == Field(event, "messageId")
    IN  IF messageId \in DOMAIN acc
        THEN LET message == [acc[messageId] EXCEPT !.content = @ \o DeltaOf(event)]
             IN  [acc |-> (messageId :> message) @@ acc,
                  isNull |-> FALSE, result |-> message, drawn |-> 0]
        ELSE [acc |-> acc, isNull |-> TRUE, drawn |-> 0]

MessageAccumulator_handleEnd(acc, event) ==
    LET messageId == Field(event, "messageId")
    IN  IF messageId \in DOMAIN acc
        THEN [acc |-> acc, isNull |-> FALSE, result |-> acc[messageId], drawn |-> 0]
        ELSE [acc |-> acc, isNull |-> TRUE, drawn |-> 0]

\* nextUUID: the value crypto.randomUUID() returns if it is called
\* handleChunk giving one and the same id to the events without messageId
MessageAccumulator_handleChunk_SameId(acc, event, nextUUID) ==
    LET given == Truthy(Field(event, "messageId"))
        messageId == IF given THEN event.messageId ELSE "uuid-0"
        existing == IF messageId \in DOMAIN acc THEN acc[messageId]
                    ELSE [id |-> messageId,
                          role |-> OrElse(Field(event, "role"), "assistant"),
                          content |-> <<>>,
                          toolResults |-> <<>>]
        message == IF "delta" \in DOMAIN event /\ event.delta # <<>>
                   THEN [existing EXCEPT !.content = @ \o event.delta]
                   ELSE existing
    IN  [acc |-> (messageId :> message) @@ acc,
         isNull |-> FALSE, result |-> message, drawn |-> IF given THEN 0 ELSE 1]

MessageAccumulator_handleChunk(acc, event, nextUUID) ==
    LET given == Truthy(Field(event, "messageId"))
        messageId == IF given THEN event.messageId ELSE nextUUID
        existing == IF messageId \in DOMAIN acc THEN acc[messageId]
                    ELSE [id |-> messageId,
                          role |-> OrElse(Field(event, "role"), "assistant"),
                          content |-> <<>>,
                          toolResults |-> <<>>]
        message == IF "delta" \in DOMAIN event /\ event.delta # <<>>
                   THEN [existing EXCEPT !.content = @ \o event.delta]
                   ELSE existing
    IN  [acc |-> (messageId :> message) @@ acc,
         isNull |-> FALSE, result |-> message, drawn |-> IF given THEN 0 ELSE 1]

ToolCallAccumulator_handleStart(acc, event) ==
    LET toolCall == [id |-> Field(event, "toolCallId"),
                     toolName |-> Field(event, "toolCallName"),
                     input |-> EmptyMap,
                     output |-> "",
                     status |-> "pending"]
    IN  [acc |-> (Field(event, "toolCallId") :> toolCall) @@ acc,
         isNull |-> FALSE, result |-> toolCall]

\* { ...currentArgs, ...newArgs }: spreading null adds nothing
\* The own enumerable properties of a primitive value: the characters of a
\* string by index, nothing for a number or a boolean.  "ab" is the non-empty
\* string of the model.
OwnProperties(prim) == IF prim = "ab" THEN ("0" :> "a") @@ ("1" :> "b") ELSE EmptyMap

\* { ...currentArgs, ...newArgs }
Spread(currentArgs, newArgs) ==
    IF newArgs = JSONNull THEN currentArgs
    ELSE IF "prim" \in DOMAIN newArgs THEN OwnProperties(newArgs.prim) @@ currentArgs
    ELSE newArgs @@ currentArgs

ToolCallAccumulator_handleArgs(acc, event) ==
    LET toolCallId == Field(event, "toolCallId")
    IN  IF toolCallId \in DOMAIN acc
        THEN LET parsed == JSONParse(event.args)
                 toolCall == IF parsed.ok
                             THEN [acc[toolCallId] EXCEPT
                                      !.input = Spread(@, parsed.value)]
                             ELSE acc[toolCallId]       \* catch: console.warn
             IN  [acc |-> (toolCallId :> toolCall) @@ acc,
                  isNull |-> FALSE, result |-> toolCall]
        ELSE [acc |-> acc, isNull |-> TRUE]

\* handleResult creating the tool call when the id is not known
ToolCallAccumulator_handleResult_Create(acc, event) ==
    LET toolCallId == Field(event, "toolCallId")
        known == IF toolCallId \in DOMAIN acc THEN acc[toolCallId]
                 ELSE [id |-> toolCallId, toolName |-> "", input |-> EmptyMap,
                       output |-> "", status |-> "pending"]
        toolCall == [known EXCEPT
                        !.output = Field(event, "result"),
                        !.status = OrElse(Field(event, "status"), "success")]
    IN  [acc |-> (toolCallId :> toolCall) @@ acc, isNull |-> FALSE, result |-> toolCall]

ToolCallAccumulator_handleResult(acc, event) ==
    LET toolCallId == Field(event, "toolCallId")
    IN  IF toolCallId \in DOMAIN acc
        THEN LET toolCall == [acc[toolCallId] EXCEPT
                                 !.output = Field(event, "result"),
                                 !.status = OrElse(Field(event, "status"), "success")]
             IN  [acc |-> (toolCallId :> toolCall) @@ acc,
                  isNull |-> FALSE, result |-> toolCall]
        ELSE [acc |-> acc, isNull |-> TRUE]

-----------------------------------------------------------------------------
(* eventParser.ts: applyStateDelta.  The state is [object |-> t], or       *)
(* [array |-> ops, object |-> t] for an array that carries the properties  *)
(* t besides its elements; no key of the model is an array index.          *)

ObjectMark == "{}"

IsPrefix(p, q) == Len(p) <= Len(q) /\ SubSeq(q, 1, Len(p)) = p

\* What the tree holds at a path: "object", "leaf" or "absent" (undefined)
Kind(tree, path) ==
    IF path = <<>> THEN "object"
    ELSE IF path \in DOMAIN tree
         THEN (IF tree[path] = ObjectMark THEN "object" ELSE "leaf")
    ELSE IF \E q \in DOMAIN tree : IsPrefix(path, q) THEN "object"
    ELSE "absent"

\* operation.path.split('/').filter(p => p !== '')
PathParts(path) ==
    LET isKey(t) == t # "/" IN SelectSeq(path, isKey)

\* pathParts[pathParts.length - 1] used as a key: undefined prints "undefined"
TargetOf(parts) == IF parts = <<>> THEN <<"undefined">> ELSE parts

\* The tree with value at the path target
Graft(target, value) ==
    IF "prim" \in DOMAIN value THEN target :> value.prim
    ELSE IF "object" \in DOMAIN value
    THEN (IF DOMAIN value.object = {} THEN target :> ObjectMark
          ELSE [q \in {target \o r : r \in DOMAIN value.object} |->
                   value.object[SubSeq(q, Len(target) + 1, Len(q))]])
    ELSE target :> "null"

\* case 'replace', case 'add'.  In a module (strict mode) both the "in" test
\* and the assignment throw a TypeError when current is a string.
PatchAdd(tree, operation) ==
    LET parts == PathParts(operation.path)
        target == TargetOf(parts)
        value == IF "value" \in DOMAIN operation THEN operation.value
                 ELSE [prim |-> Undefined]
        kept == {q \in DOMAIN tree : ~IsPrefix(target, q) /\ ~IsPrefix(q, target)}
    IN  IF \E i \in 1..(Len(parts) - 1) : Kind(tree, SubSeq(parts, 1, i)) = "leaf"
        THEN [threw |-> TRUE, tree |-> tree]
        ELSE [threw |-> FALSE,
              tree |-> Graft(target, value) @@ [q \in kept |-> tree[q]]]

\* case 'remove': reading a property of undefined, and deleting one, throws
PatchRemove(tree, operation) ==
    LET parts == PathParts(operation.path)
        target == TargetOf(parts)
        parent == SubSeq(target, 1, Len(target) - 1)
        kept == {q \in DOMAIN tree : ~IsPrefix(target, q)}
        emptied == /\ parent # <<>>
                   /\ Kind(tree, target) # "absent"
                   /\ \A q \in kept : ~IsPrefix(parent, q)
    IN  IF Kind(tree, parent) = "absent"
        THEN [threw |-> TRUE, tree |-> tree]
        ELSE IF Kind(tree, parent) = "leaf"
        THEN [threw |-> FALSE, tree |-> tree]
        ELSE [threw |-> FALSE,
              tree |-> IF emptied THEN (parent :> ObjectMark) @@ [q \in kept |-> tree[q]]
                       ELSE [q \in kept |-> tree[q]]]

\* The loop leaving the delta at the first operation it does not support
RECURSIVE PatchAll_StopAtUnsupported(_, _)
PatchAll_StopAtUnsupported(tree, delta) ==
    IF delta = <<>> THEN [threw |-> FALSE, tree |-> tree]
    ELSE LET operation == Head(delta)
             first == CASE operation.op \in {"replace", "add"} -> PatchAdd(tree, operation)
                        [] operation.op = "remove" -> PatchRemove(tree, operation)
                        [] OTHER -> [threw |-> FALSE, tree |-> tree]
         IN  IF first.threw \/ operation.op \notin {"replace", "add", "remove"}
             THEN first
             ELSE PatchAll_StopAtUnsupported(first.tree, Tail(delta))

\* for (const operation of delta) { switch (operation.op) ... }
RECURSIVE PatchAll(_, _)
PatchAll(tree, delta) ==
    IF delta = <<>> THEN [threw |-> FALSE, tree |-> tree]
    ELSE LET operation == Head(delta)
             first == CASE operation.op \in {"replace", "add"} -> PatchAdd(tree, operation)
                        [] operation.op = "remove" -> PatchRemove(tree, operation)
                        [] OTHER -> [threw |-> FALSE, tree |-> tree]  \* console.warn
         IN  IF first.threw THEN first ELSE PatchAll(first.tree, Tail(delta))

\* JSON.parse(JSON.stringify(state)): an array loses its own properties
DeepClone(state) ==
    IF "array" \in DOMAIN state THEN [state EXCEPT !.object = EmptyMap] ELSE state

\* [threw |-> TRUE] when a TypeError escapes, else the new state
applyStateDelta(state, delta) ==
    LET newState == DeepClone(state)
        patched == PatchAll(newState.object, delta)
    IN  IF patched.threw THEN [threw |-> TRUE]
        ELSE [threw |-> FALSE, state |-> [newState EXCEPT !.object = patched.tree]]

-----------------------------------------------------------------------------
(* useChatStream: handleAGUIEvent.  st is the state the handler reads and   *)
(* writes: the signals, the two accumulators of the running send, and the  *)
(* calls made to the callbacks of the options.                             *)

AgentUndefined == [undefined |-> TRUE]

\* prev.findIndex(m => m.id === id), 1-based; 0 for -1
FindIndex(list, id) ==
    IF \E i \in 1..Len(list) : list[i].id = id
    THEN CHOOSE i \in 1..Len(list) :
            list[i].id = id /\ \A j \in 1..(i-1) : list[j].id # id
    ELSE 0

handle_RUN_STARTED(event, st) ==
    [st EXCEPT !.currentThreadId = Field(event, "threadId"),
               !.currentRunId = Field(event, "runId")]

\* The RUN_ERROR branch reporting a fixed text instead of event.message
handle_RUN_ERROR_Generic(event, st) ==
    [st EXCEPT !.error = "Agent error",
               !.onErrorCalls = Append(@, "Agent error")]

handle_RUN_ERROR(event, st) ==
    [st EXCEPT !.error = OrElse(Field(event, "message"), "Agent error"),
               !.onErrorCalls = Append(@, OrElse(Field(event, "message"), "Agent error"))]

\* The STEP_FINISHED branch putting the new step first
handle_STEP_FINISHED_Prepend(event, st) ==
    [st EXCEPT !.completedSteps = <<Field(event, "stepName")>> \o @]

handle_STEP_FINISHED(event, st) ==
    [st EXCEPT !.completedSteps = Append(@, Field(event, "stepName"))]

handle_TEXT_MESSAGE_START(event, st) ==
    LET r == MessageAccumulator_handleStart(st.messageAccumulator, event)
        st1 == [st EXCEPT !.messageAccumulator = r.acc]
    IN  IF ~r.isNull /\ Truthy(r.result.id)
        THEN IF FindIndex(st.messages, r.result.id) # 0
             THEN st1
             ELSE [st1 EXCEPT !.messages = Append(@,
                       [id |-> r.result.id,
                        role |-> OrElse(r.result.role, "assistant"),
                        content |-> r.result.content,
                        toolResults |-> <<>>])]
        ELSE st1

\* The updater moving the message it updates to the end of the list
PublishContent_MoveToEnd(prev, partialMessage, newToolResults) ==
    LET index == FindIndex(prev, partialMessage.id)
        others == SelectSeq(prev, LAMBDA message : message.id # partialMessage.id)
    IN  IF index = 0
        THEN Append(prev, [id |-> partialMessage.id,
                           role |-> OrElse(partialMessage.role, "assistant"),
                           content |-> partialMessage.content,
                           toolResults |-> newToolResults])
        ELSE Append(others,
                 [k \in DOMAIN prev[index] |->
                     IF k = "content" THEN partialMessage.content ELSE prev[index][k]])

\* The setMessages updater shared by TEXT_MESSAGE_CONTENT and TEXT_MESSAGE_CHUNK
PublishContent(prev, partialMessage, newToolResults) ==
    LET index == FindIndex(prev, partialMessage.id)
    IN  IF index = 0
        THEN Append(prev, [id |-> partialMessage.id,
                           role |-> OrElse(partialMessage.role, "assistant"),
                           content |-> partialMessage.content,
                           toolResults |-> newToolResults])
        ELSE [prev EXCEPT ![index] =
                 [k \in DOMAIN prev[index] |->
                     IF k = "content" THEN partialMessage.content ELSE prev[index][k]]]

\* The TEXT_MESSAGE_CONTENT branch applied only once RUN_STARTED has set the run id
handle_TEXT_MESSAGE_CONTENT_Gated(event, st) ==
    LET r == MessageAccumulator_handleContent(st.messageAccumulator, event)
        st1 == [st EXCEPT !.messageAccumulator = r.acc]
    IN  IF st.currentRunId = Undefined THEN st
        ELSE IF ~r.isNull /\ Truthy(r.result.id)
        THEN [st1 EXCEPT !.messages = PublishContent(@, r.result, r.result.toolResults)]
        ELSE st1

handle_TEXT_MESSAGE_CONTENT(event, st) ==
    LET r == MessageAccumulator_handleContent(st.messageAccumulator, event)
        st1 == [st EXCEPT !.messageAccumulator = r.acc]
    IN  IF ~r.isNull /\ Truthy(r.result.id)
        THEN [st1 EXCEPT !.messages = PublishContent(@, r.result, r.result.toolResults)]
        ELSE st1

handle_TEXT_MESSAGE_END(event, st) ==
    LET r == MessageAccumulator_handleEnd(st.messageAccumulator, event)
    IN  IF ~r.isNull /\ Truthy(r.result.id) /\ FindIndex(st.messages, r.result.id) # 0
        THEN [st EXCEPT !.onMessageCalls =
                 Append(@, st.messages[FindIndex(st.messages, r.result.id)])]
        ELSE st

handle_TEXT_MESSAGE_CHUNK(event, st) ==
    LET r == MessageAccumulator_handleChunk(st.messageAccumulator, event,
                                            UUID(st.uuids + 1))
        st1 == [st EXCEPT !.messageAccumulator = r.acc, !.uuids = @ + r.drawn]
    IN  IF ~r.isNull /\ Truthy(r.result.id)
        THEN [st1 EXCEPT !.messages = PublishContent(@, r.result, <<>>)]
        ELSE st1

\* message.toolResults, [] when the message has none (a user message)
ToolResultsOf(message) ==
    IF "toolResults" \in DOMAIN message THEN message.toolResults ELSE <<>>

WithToolResults(message, toolResults) ==
    [k \in DOMAIN message \cup {"toolResults"} |->
        IF k = "toolResults" THEN toolResults ELSE message[k]]

\* The TOOL_CALL_START branch putting the new tool result first in the list
handle_TOOL_CALL_START_Prepend(event, st) ==
    LET r == ToolCallAccumulator_handleStart(st.toolCallAccumulator, event)
        st1 == [st EXCEPT !.toolCallAccumulator = r.acc]
        parentMessageId == Field(event, "parentMessageId")
        index == FindIndex(st.messages, parentMessageId)
    IN  IF ~r.isNull /\ Truthy(r.result.id) /\ Truthy(parentMessageId) /\ index # 0
        THEN [st1 EXCEPT !.messages[index] =
                 WithToolResults(@, <<[id |-> r.result.id,
                                       toolName |-> OrElse(r.result.toolName, ""),
                                       input |-> r.result.input,
                                       output |-> OrElse(r.result.output, ""),
                                       status |-> "pending"]>> \o ToolResultsOf(@))]
        ELSE st1

handle_TOOL_CALL_START(event, st) ==
    LET r == ToolCallAccumulator_handleStart(st.toolCallAccumulator, event)
        st1 == [st EXCEPT !.toolCallAccumulator = r.acc]
        parentMessageId == Field(event, "parentMessageId")
        index == FindIndex(st.messages, parentMessageId)
    IN  IF ~r.isNull /\ Truthy(r.result.id) /\ Truthy(parentMessageId) /\ index # 0
        THEN [st1 EXCEPT !.messages[index] =
                 WithToolResults(@, Append(ToolResultsOf(@),
                     [id |-> r.result.id,
                      toolName |-> OrElse(r.result.toolName, ""),
                      input |-> r.result.input,
                      output |-> OrElse(r.result.output, ""),
                      status |-> "pending"]))]
        ELSE st1

\* prev.map(message => ...) of TOOL_CALL_ARGS and TOOL_CALL_RESULT: in every
\* message, the first tool result with the id is replaced by { ...it, ...fields }
MapToolResult(prev, id, fields) ==
    [i \in 1..Len(prev) |->
        LET toolIndex == FindIndex(ToolResultsOf(prev[i]), id)
        IN  IF "toolResults" \in DOMAIN prev[i] /\ toolIndex # 0
            THEN [prev[i] EXCEPT !.toolResults[toolIndex] = fields @@ @]
            ELSE prev[i]]

handle_TOOL_CALL_ARGS(event, st) ==
    LET r == ToolCallAccumulator_handleArgs(st.toolCallAccumulator, event)
        st1 == [st EXCEPT !.toolCallAccumulator = r.acc]
    IN  IF ~r.isNull /\ Truthy(r.result.id)
        THEN [st1 EXCEPT !.messages =
                 MapToolResult(@, r.result.id, [input |-> r.result.input])]
        ELSE st1

\* The TOOL_CALL_RESULT branch publishing the output and leaving the status
handle_TOOL_CALL_RESULT_NoStatus(event, st) ==
    LET r == ToolCallAccumulator_handleResult(st.toolCallAccumulator, event)
        st1 == [st EXCEPT !.toolCallAccumulator = r.acc]
    IN  IF ~r.isNull /\ Truthy(r.result.id)
        THEN [st1 EXCEPT !.messages =
                 MapToolResult(@, r.result.id, [output |-> OrElse(r.result.output, "")])]
        ELSE st1

handle_TOOL_CALL_RESULT(event, st) ==
    LET r == ToolCallAccumulator_handleResult(st.toolCallAccumulator, event)
        st1 == [st EXCEPT !.toolCallAccumulator = r.acc]
    IN  IF ~r.isNull /\ Truthy(r.result.id)
        THEN [st1 EXCEPT !.messages =
                 MapToolResult(@, r.result.id,
                     [output |-> OrElse(r.result.output, ""),
                      status |-> OrElse(r.result.status, "success")])]
        ELSE st1

\* The JSON values that are falsy: null, "", 0, false
Falsy(value) ==
    \/ value = JSONNull
    \/ "prim" \in DOMAIN value /\ value.prim \in {"", "0", "false"}

\* setAgentState(event.state || {})
handle_STATE_SNAPSHOT(event, st) ==
    [st EXCEPT !.agentState = IF "state" \in DOMAIN event /\ ~Falsy(event.state)
                              THEN event.state ELSE [object |-> EmptyMap]]

\* The message of the TypeError thrown inside applyStateDelta
TypeErrorMessage == "TypeError"

\* setAgentState(prev => !prev ? event.delta : applyStateDelta(prev, event.delta));
\* for (... of undefined) throws.  The agent states of the model are undefined,
\* objects and arrays.
handle_STATE_DELTA(event, st) ==
    IF st.agentState = AgentUndefined
    THEN [st EXCEPT !.agentState =
             IF "delta" \in DOMAIN event
             THEN [array |-> event.delta, object |-> EmptyMap]
             ELSE AgentUndefined]
    ELSE IF "delta" \notin DOMAIN event
    THEN [st EXCEPT !.threw = TypeErrorMessage]
    ELSE LET r == applyStateDelta(st.agentState, event.delta)
         IN  IF r.threw THEN [st EXCEPT !.threw = TypeErrorMessage]
             ELSE [st EXCEPT !.agentState = r.state]

\* The case labels of the switch
KnownEventTypes ==
    {"RUN_STARTED", "RUN_FINISHED", "RUN_ERROR", "STEP_STARTED", "STEP_FINISHED",
     "TEXT_MESSAGE_START", "TEXT_MESSAGE_CONTENT", "TEXT_MESSAGE_END",
     "TEXT_MESSAGE_CHUNK", "TOOL_CALL_START", "TOOL_CALL_ARGS", "TOOL_CALL_END",
     "TOOL_CALL_RESULT", "STATE_SNAPSHOT", "STATE_DELTA", "MESSAGES_SNAPSHOT",
     "RAW", "CUSTOM"}

\* RUN_FINISHED, STEP_STARTED, TOOL_CALL_END, MESSAGES_SNAPSHOT, RAW, CUSTOM and
\* the default branch change nothing.  st.threw is the message of the error
\* the handler throws, Null when it returns.
handleAGUIEvent(event, st) ==
    CASE event.type = "RUN_STARTED" -> handle_RUN_STARTED(event, st)
      [] event.type = "RUN_ERROR" -> handle_RUN_ERROR(event, st)
      [] event.type = "STEP_FINISHED" -> handle_STEP_FINISHED(event, st)
      [] event.type = "TEXT_MESSAGE_START" -> handle_TEXT_MESSAGE_START(event, st)
      [] event.type = "TEXT_MESSAGE_CONTENT" -> handle_TEXT_MESSAGE_CONTENT(event, st)
      [] event.type = "TEXT_MESSAGE_END" -> handle_TEXT_MESSAGE_END(event, st)
      [] event.type = "TEXT_MESSAGE_CHUNK" -> handle_TEXT_MESSAGE_CHUNK(event, st)
      [] event.type = "TOOL_CALL_START" -> handle_TOOL_CALL_START(event, st)
      [] event.type = "TOOL_CALL_ARGS" -> handle_TOOL_CALL_ARGS(event, st)
      [] event.type = "TOOL_CALL_RESULT" -> handle_TOOL_CALL_RESULT(event, st)
      [] event.type = "STATE_SNAPSHOT" -> handle_STATE_SNAPSHOT(event, st)
      [] event.type = "STATE_DELTA" -> handle_STATE_DELTA(event, st)
      [] OTHER -> st

-----------------------------------------------------------------------------
(* The pure parser under test: a stream is a list of records of            *)
(* ParseRecords followed by one unterminated fragment of ParseTails; it is *)
(* fed to parseSSEChunk in chunks cut at every token boundary, and to      *)
(* parseSSE as one text.                                                   *)

Record(payload) == DataPrefix \o payload \o <<NL, NL>>

ParseRecords == <<
    Record(<<"{", "\"type\":\"RUN_FINISHED\"", "}">>),
    Record(Stringify(EvContentM1a)),
    Stringify(EvRunStarted) \o <<NL, NL>>,                 \* no "data: " prefix
    Record(<<"{invalid json}">>),                          \* not JSON
    Record(Stringify(ObjNoType)),                          \* no type field
    DataPrefix \o <<" ">> \o Stringify(EvRunError) \o <<" ", "\r", NL>>,
    Record(<<"null">>)
>>

\* What each record of ParseRecords stands for: the events it carries
ParseRecordEvents == <<
    <<EvRunFinished>>, <<EvContentM1a>>, <<>>, <<>>, <<>>, <<EvRunError>>, <<>>
>>

ParseTails == <<
    <<>>,
    <<"d", "a", "t">>,
    DataPrefix \o Stringify(EvEndM1)
>>

RECURSIVE Concat(_)
Concat(texts) == IF texts = <<>> THEN <<>> ELSE Head(texts) \o Concat(Tail(texts))

StreamOf(recs, tail) ==
    Concat([i \in 1..Len(recs) |-> ParseRecords[recs[i]]]) \o ParseTails[tail]

PvIdle == [recs |-> <<>>, tail |-> 1, stream |-> <<>>, fed |-> 0, buffer |-> <<>>,
           events |-> <<>>, threw |-> FALSE, carried |-> FALSE,
           sse |-> [run |-> FALSE]]

ParseStreams ==
    { [PvIdle EXCEPT !.recs = recs, !.tail = tail, !.stream = StreamOf(recs, tail)] :
        recs \in UNION { [1..n -> 1..Len(ParseRecords)] : n \in 0..MaxParseRecords },
        tail \in 1..Len(ParseTails) }

\* One call of parseSSEChunk with the next k tokens of the stream, as in the
\* read loop: the buffer returned by the previous call is passed in.
FeedChunk ==
    /\ pv.stream # <<>>
    /\ ~pv.threw
    /\ \E k \in 0..(Len(pv.stream) - pv.fed) :
          LET chunk == SubSeq(pv.stream, pv.fed + 1, pv.fed + k)
              r == parseSSEChunk(pv.buffer, chunk)
          IN  pv' = [pv EXCEPT !.fed = pv.fed + k,
                               !.buffer = r.buffer,
                               !.events = pv.events \o r.events,
                               !.threw = r.threw,
                               !.carried = pv.carried \/ (r.buffer # <<>> /\ k > 0
                                              /\ pv.fed + k < Len(pv.stream))]
    /\ UNCHANGED hookVars

\* One call of parseSSE with the whole stream
ParseWhole ==
    /\ pv.stream # <<>>
    /\ ~pv.sse.run
    /\ LET r == parseSSE(pv.stream)
       IN  pv' = [pv EXCEPT !.sse = [run |-> TRUE, events |-> r.events, threw |-> r.threw]]
    /\ UNCHANGED hookVars

-----------------------------------------------------------------------------
(* applyStateDelta called on its own: a state, and a delta that grows by    *)
(* one operation at a time; pv.out is what the call returns for them.       *)

\* validateEventSequence(events): [threw |-> FALSE, value |-> TRUE] when it
\* returns true, [threw |-> TRUE, message |-> m] when it throws new Error(m)
validateEventSequence(events) ==
    IF Len(events) = 0 THEN [threw |-> FALSE, value |-> TRUE]
    ELSE IF events[1].type # "RUN_STARTED"
    THEN [threw |-> TRUE, message |-> "Missing RUN_STARTED"]
    ELSE IF events[Len(events)].type # "RUN_FINISHED"
              /\ events[Len(events)].type # "RUN_ERROR"
    THEN [threw |-> TRUE, message |-> "Missing RUN_FINISHED or RUN_ERROR"]
    ELSE [threw |-> FALSE, value |-> TRUE]

\* The events that the sequences given to the validators are made of
SequenceEvents ==
    {EvRunStarted, EvRunStartedBare, EvRunFinished, EvRunError, EvStartM1, EvUnknown}

\* A sequence of events, what validateEventSequence makes of it and what
\* validateEvent makes of each of its events
SequenceCall(events) ==
    [events |-> events,
     out |-> validateEventSequence(events),
     valid |-> [k \in 1..Len(events) |-> validateEvent(events[k])]]

\* validateEventSequence([...events, event]) and validateEvent(event)
AppendEvent ==
    /\ Len(pv.events) < MaxSequence
    /\ \E event \in SequenceEvents : pv' = SequenceCall(Append(pv.events, event))
    /\ UNCHANGED hookVars

-----------------------------------------------------------------------------
(* Composer.tsx: the text field and the send button.  pv holds inputValue,  *)
(* the prop isDisabled and the messages passed to props.onSend.             *)

\* props.maxLength
ComposerMaxLength == 2

\* The characters the user types
Keys == {"a", " "}

ComposerInit == [inputValue |-> <<>>, isDisabled |-> FALSE, onSend |-> <<>>]

characterCount(c) == Len(c.inputValue)
isOverLimit(c) == characterCount(c) > ComposerMaxLength

\* handleSubmit: props.onSend(message) and setInputValue('') when the trimmed
\* input is not empty and the composer is not disabled
handleSubmit(c) ==
    LET message == Trim(c.inputValue)
    IN  IF message # <<>> /\ ~c.isDisabled
        THEN [c EXCEPT !.onSend = Append(@, message), !.inputValue = <<>>]
        ELSE c

\* disabled={props.isDisabled || !inputValue().trim() || isOverLimit()}
ButtonDisabled(c) == c.isDisabled \/ Trim(c.inputValue) = <<>> \/ isOverLimit(c)

\* onChange={setInputValue}: a character typed into the enabled text field
TypeCharacter ==
    /\ ~pv.isDisabled
    /\ Len(pv.inputValue) < MaxInput
    /\ \E key \in Keys : pv' = [pv EXCEPT !.inputValue = Append(@, key)]
    /\ UNCHANGED hookVars

\* A click on the submit button, which submits the form unless it is disabled
ClickSend ==
    /\ ~ButtonDisabled(pv)
    /\ Len(pv.onSend) < MaxSubmits
    /\ pv' = handleSubmit(pv)
    /\ UNCHANGED hookVars

\* handleKeyDown with Enter and no Shift, in the enabled text field
PressEnter ==
    /\ ~pv.isDisabled
    /\ Len(pv.onSend) < MaxSubmits
    /\ pv' = handleSubmit(pv)
    /\ UNCHANGED hookVars

\* The parent changes props.isDisabled
SetDisabled ==
    /\ pv' = [pv EXCEPT !.isDisabled = ~@]
    /\ UNCHANGED hookVars

DeltaStates == {
    [object |-> (<<"counter">> :> "0") @@ (<<"mode">> :> "active")],
    [object |-> (<<"counter">> :> "0") @@ (<<"a", "b">> :> "1")],
    [object |-> EmptyMap]
}

DeltaOperations == {
    [op |-> "replace", path |-> <<"/", "counter">>, value |-> [prim |-> "1"]],
    [op |-> "add", path |-> <<"/", "status">>, value |-> [prim |-> "running"]],
    [op |-> "add", path |-> <<"/", "a", "/", "c">>, value |-> [prim |-> "2"]],
    [op |-> "remove", path |-> <<"/", "mode">>],
    [op |-> "remove", path |-> <<"/", "a", "/", "b">>],
    [op |-> "remove", path |-> <<"/", "x", "/", "y">>],
    [op |-> "move", path |-> <<"/", "counter">>, from |-> <<"/", "mode">>],
    [op |-> "copy", path |-> <<"/", "copied">>, from |-> <<"/", "counter">>],
    [op |-> "test", path |-> <<"/", "counter">>, value |-> [prim |-> "7"]]
}

DeltaCall(state, delta) ==
    [state |-> state, delta |-> delta, out |-> applyStateDelta(state, delta)]

\* applyStateDelta(state, [...delta, operation])
ApplyDelta ==
    /\ Len(pv.delta) < MaxOperations
    /\ \E operation \in DeltaOperations :
          pv' = DeltaCall(pv.state, Append(pv.delta, operation))
    /\ UNCHANGED hookVars

-----------------------------------------------------------------------------
(* useChatStream: the hook.  Each sendMessage call that is accepted runs   *)
(* as its own asynchronous function; pc says at which await it is:         *)
(* "new" (not called), "fetch" (await fetch), "read" (await reader.read),  *)
(* "handle" (await handleAGUIEvent, events of the chunk left in queue),    *)
(* "done" (returned: the promise is fulfilled), "rejected" (an error left  *)
(* the function: the promise is rejected).                                 *)

Sends == 1..MaxSends

Running(i) == pc[i] \in {"fetch", "read", "handle"}

NoEvent == [type |-> "<none>"]

Step(op, i, event) == [op |-> op, call |-> i, event |-> event]

\* sendMessage without its finally block
Catch_NoFinally(i, errorMessage) ==
    /\ error' = errorMessage
    /\ onErrorCalls' = Append(onErrorCalls, errorMessage)
    /\ pc' = [pc EXCEPT ![i] = "done"]
    /\ UNCHANGED isStreaming

\* sendMessage without its catch block: the error leaves the function, the
\* finally block runs and the promise rejects
Catch_Rethrow(i, errorMessage) ==
    /\ isStreaming' = FALSE
    /\ pc' = [pc EXCEPT ![i] = "rejected"]
    /\ UNCHANGED <<error, onErrorCalls>>

\* catch (err) { setError; onError } finally { setIsStreaming(false) }: the
\* promise of the call is fulfilled ("done"), not rejected
Catch(i, errorMessage) ==
    /\ error' = errorMessage
    /\ onErrorCalls' = Append(onErrorCalls, errorMessage)
    /\ isStreaming' = FALSE
    /\ pc' = [pc EXCEPT ![i] = "done"]

UserContents == { <<"h", "i">>, <<" ">>, <<>> }

\* A user message holding the content without its surrounding white space
UserMessage_Trimmed(id, content) == [id |-> id, role |-> "user", content |-> Trim(content)]

\* const userMessage = { id: crypto.randomUUID(), role: 'user', content, ... }
UserMessage(id, content) == [id |-> id, role |-> "user", content |-> content]

\* The guard without its content.trim() half
Rejected_StreamingOnly(content) == isStreaming

\* The guard without its isStreaming() half
Rejected_BlankOnly(content) == Trim(content) = <<>>

\* if (!content.trim() || isStreaming()) return;
Rejected(content) == Trim(content) = <<>> \/ isStreaming

\* A request body built from the messages read before addMessage and the new
\* message
RequestBody_Appended(published, threadId, runId) ==
    [messages |-> Append(published, published[Len(published)]),
     threadId |-> threadId, runId |-> runId]

\* body: { messages: messages(), threadId: currentThreadId(), runId: currentRunId() }
\* published is messages() after addMessage; a field that is undefined is
\* left out by JSON.stringify
RequestBody(published, threadId, runId) ==
    [messages |-> published, threadId |-> threadId, runId |-> runId]

\* sendMessage(content), up to the await of fetch; a rejected call returns at once
sendMessage(content, slots) ==
    IF Rejected(content)
    THEN UNCHANGED vars
    ELSE /\ \E i \in slots : pc[i] = "new"
         /\ LET i == CHOOSE j \in slots : pc[j] = "new" /\ \A k \in 1..(j-1) : pc[k] # "new"
                userMessage == UserMessage(UUID(uuids + 1), content)
            IN  /\ uuids' = uuids + 1
                /\ messages' = Append(messages, userMessage)        \* addMessage
                /\ onMessageCalls' = Append(onMessageCalls, userMessage)
                /\ isStreaming' = TRUE
                /\ error' = Null
                /\ fetches' = fetches + 1
                /\ onErrorCalls' = <<>>
                /\ pc' = [pc EXCEPT ![i] = "fetch"]
                /\ last' = Step("sendMessage", i,
                               [type |-> "<none>", content |-> content,
                                body |-> RequestBody(Append(messages, userMessage),
                                                     currentThreadId, currentRunId)])
         /\ UNCHANGED <<currentThreadId, currentRunId, agentState, completedSteps,
                        sseBuffer, queue, messageAccumulator, toolCallAccumulator, wire,
                        sent, errored, msgTrack, toolTrack, toolOrder, pv>>

SendMessage(slots, contents) == \E content \in contents : sendMessage(content, slots)

\* What a new pair of accumulators means for the events seen so far
TrackNewRun(track) ==
    [id \in DOMAIN track |->
        IF track[id].phase = "none" THEN track[id] ELSE [track[id] EXCEPT !.phase = "off"]]

\* The failure reported as "An error occurred" whatever it is
FetchFailure_Generic(outcome) == "An error occurred"

\* err.message of the error thrown before the read loop: fetch rejected (with an
\* Error "Failed to fetch"), !response.ok (status 500), no reader
FetchFailure(outcome) ==
    CASE outcome = "rejected" -> "Failed to fetch"
      [] outcome = "status" -> "HTTP error! status: 500"
      [] outcome = "nobody" -> "No response body"

\* await fetch(...) settles; on success the accumulators and the buffer are created
FetchSettles(i, outcomes) ==
    /\ pc[i] = "fetch"
    /\ \E outcome \in outcomes :
          /\ last' = Step("fetch:" \o outcome, i, NoEvent)
          /\ IF outcome = "ok"
             THEN /\ pc' = [pc EXCEPT ![i] = "read"]
                  /\ messageAccumulator' = [messageAccumulator EXCEPT ![i] = EmptyMap]
                  /\ toolCallAccumulator' = [toolCallAccumulator EXCEPT ![i] = EmptyMap]
                  /\ sseBuffer' = [sseBuffer EXCEPT ![i] = <<>>]
                  /\ msgTrack' = TrackNewRun(msgTrack)
                  /\ toolTrack' = TrackNewRun(toolTrack)
                  /\ UNCHANGED <<error, onErrorCalls, isStreaming>>
             ELSE /\ Catch(i, FetchFailure(outcome))
                  /\ UNCHANGED <<messageAccumulator, toolCallAccumulator, sseBuffer,
                                 msgTrack, toolTrack>>
    /\ UNCHANGED <<messages, currentThreadId, currentRunId, agentState, completedSteps,
                   queue, wire, sent, fetches, uuids, onMessageCalls, errored,
                   toolOrder, pv>>

\* The server writes one more record to the response of call i
ServerWrites(i, env) ==
    /\ pc[i] = "read"
    /\ sent < env.maxRecords
    /\ \/ wire[i] = <<>>
       \/ /\ env.batches
          /\ Cardinality({k \in 1..Len(wire[i]) : wire[i][k] = NL}) <= MaxPending
    /\ \E r \in 1..Len(env.records) :
          wire' = [wire EXCEPT ![i] = @ \o env.records[r]]
    /\ sent' = sent + 1
    /\ UNCHANGED <<last, messages, isStreaming, error, currentThreadId, currentRunId,
                   agentState, completedSteps, pc, sseBuffer, queue,
                   messageAccumulator, toolCallAccumulator, fetches, uuids,
                   onErrorCalls, onMessageCalls, errored, msgTrack, toolTrack,
                   toolOrder, pv>>

\* Where the transport may cut the text into chunks: at its end, after a
\* newline, and inside a line (after the colon of "data: ")
Cuts(text, fragments) ==
    IF fragments
    THEN { k \in 1..Len(text) : k = Len(text) \/ text[k] = NL \/ text[k] = ":" }
    ELSE { Len(text) }

\* await reader.read() resolves with a chunk: parseSSEChunk, then the for loop starts
ReadChunk(i, fragments) ==
    /\ pc[i] = "read"
    /\ wire[i] # <<>>
    /\ \E k \in Cuts(wire[i], fragments) :
          LET chunk == SubSeq(wire[i], 1, k)
              parsed == parseSSEChunk(sseBuffer[i], chunk)
          IN  /\ wire' = [wire EXCEPT ![i] = SubSeq(@, k + 1, Len(@))]
              /\ last' = (IF parsed.threw THEN Step("read:threw", i, NoEvent) ELSE last)
              /\ IF parsed.threw
                 THEN /\ Catch(i, "SyntaxError")
                      /\ UNCHANGED <<sseBuffer, queue>>
                 ELSE /\ sseBuffer' = [sseBuffer EXCEPT ![i] = parsed.buffer]
                      /\ queue' = [queue EXCEPT ![i] = parsed.events]
                      /\ pc' = [pc EXCEPT ![i] =
                                   IF parsed.events = <<>> THEN "read" ELSE "handle"]
                      /\ UNCHANGED <<error, onErrorCalls, isStreaming>>
    /\ UNCHANGED <<messages, currentThreadId, currentRunId, agentState, completedSteps,
                   messageAccumulator, toolCallAccumulator, sent, fetches, uuids,
                   onMessageCalls, errored, msgTrack, toolTrack, toolOrder, pv>>

\* await reader.read() resolves with done (the body was closed), or rejects
\* ReadEnds decoding, when the body is done, the text left in sseBuffer
ReadEnds_Flush(i, outcomes) ==
    /\ pc[i] = "read"
    /\ wire[i] = <<>>
    /\ \E outcome \in outcomes :
          /\ last' = Step("read:" \o outcome, i, NoEvent)
          /\ IF outcome = "done"
             THEN IF parseSSE(sseBuffer[i]).events # <<>>
                  THEN /\ queue' = [queue EXCEPT ![i] = parseSSE(sseBuffer[i]).events]
                       /\ sseBuffer' = [sseBuffer EXCEPT ![i] = <<>>]
                       /\ pc' = [pc EXCEPT ![i] = "handle"]
                       /\ UNCHANGED <<error, onErrorCalls, isStreaming>>
                  ELSE /\ isStreaming' = FALSE
                       /\ pc' = [pc EXCEPT ![i] = "done"]
                       /\ UNCHANGED <<error, onErrorCalls, sseBuffer, queue>>
             ELSE Catch(i, "network error") /\ UNCHANGED <<sseBuffer, queue>>
    /\ UNCHANGED <<messages, currentThreadId, currentRunId, agentState, completedSteps,
                   messageAccumulator, toolCallAccumulator, wire,
                   sent, fetches, uuids, onMessageCalls, errored, msgTrack, toolTrack,
                   toolOrder, pv>>

ReadEnds(i, outcomes) ==
    /\ pc[i] = "read"
    /\ wire[i] = <<>>
    /\ \E outcome \in outcomes :
          /\ last' = Step("read:" \o outcome, i, NoEvent)
          /\ IF outcome = "done"
             THEN /\ isStreaming' = FALSE                       \* finally
                  /\ pc' = [pc EXCEPT ![i] = "done"]
                  /\ UNCHANGED <<error, onErrorCalls>>
             ELSE Catch(i, "network error")
    /\ UNCHANGED <<messages, currentThreadId, currentRunId, agentState, completedSteps,
                   sseBuffer, queue, messageAccumulator, toolCallAccumulator, wire,
                   sent, fetches, uuids, onMessageCalls, errored, msgTrack, toolTrack,
                   toolOrder, pv>>

-----------------------------------------------------------------------------
(* What the events handled so far spell, per id.  These definitions do not *)
(* model code: they record the event sequences the properties speak about. *)
(* A message id is "open" after a TEXT_MESSAGE_START or TEXT_MESSAGE_CHUNK *)
(* for an id never seen and not published, followed by CONTENT and CHUNK   *)
(* events of the same response, and "ended" after the TEXT_MESSAGE_END     *)
(* that follows; role and content are then the role given (assistant when  *)
(* none is) and the concatenation of the deltas.  Any other event for the  *)
(* id, a clearMessages and a new response turn the id "off".  An id is     *)
(* "implicit" after a TEXT_MESSAGE_CONTENT that is the first event for it. *)
(* received is the concatenation of all the deltas handled for the id,    *)
(* whatever its phase.                                                     *)

MessageIds == {"m1", "m2"}
ToolCallIds == {"tc1", "tc2"}

MsgNone == [phase |-> "none", role |-> "", content |-> <<>>, received |-> <<>>]
\* A JSON value that is an object
IsJSONObject(value) == value # JSONNull /\ "prim" \notin DOMAIN value

ToolNone == [phase |-> "none", parent |-> "", expect |-> EmptyMap, named |-> "",
             merged |-> EmptyMap]

Off(t) == [t EXCEPT !.phase = "off"]

TrackMessage(t, event, published) ==
    LET received == IF event.type \in {"TEXT_MESSAGE_CONTENT", "TEXT_MESSAGE_CHUNK"}
                    THEN t.received \o event.delta ELSE t.received
        tracked ==
            CASE event.type \in {"TEXT_MESSAGE_START", "TEXT_MESSAGE_CHUNK"}
                     /\ t.phase = "none" /\ ~published ->
                   [t EXCEPT !.phase = "open",
                             !.role = OrElse(Field(event, "role"), "assistant"),
                             !.content = IF event.type = "TEXT_MESSAGE_CHUNK"
                                         THEN event.delta ELSE <<>>]
              [] event.type \in {"TEXT_MESSAGE_CONTENT", "TEXT_MESSAGE_CHUNK"}
                     /\ t.phase = "open" ->
                   [t EXCEPT !.content = @ \o event.delta]
              [] event.type = "TEXT_MESSAGE_END" /\ t.phase = "open" ->
                   [t EXCEPT !.phase = "ended"]
              [] event.type = "TEXT_MESSAGE_CONTENT" /\ t.phase = "none" /\ ~published ->
                   [t EXCEPT !.phase = "implicit", !.role = "assistant",
                             !.content = event.delta]
              [] OTHER -> Off(t)
    IN  [tracked EXCEPT !.received = received]

\* A tool call id goes through "started", "args", "ended", "result" on exactly
\* TOOL_CALL_START (naming a published parent), TOOL_CALL_ARGS (the text of a
\* JSON object), TOOL_CALL_END, TOOL_CALL_RESULT; expect is the tool result
\* these events describe, named the parent of the last TOOL_CALL_START handled,
\* merged the JSON objects of the TOOL_CALL_ARGS handled since, later keys first.
TrackToolCall(t, event, parentPublished) ==
    LET named == IF event.type = "TOOL_CALL_START" /\ "parentMessageId" \in DOMAIN event
                 THEN event.parentMessageId ELSE t.named
        tracked ==
            CASE event.type = "TOOL_CALL_START" /\ t.phase = "none" /\ parentPublished ->
                   [t EXCEPT !.phase = "started", !.parent = event.parentMessageId,
                             !.expect = [id |-> event.toolCallId,
                                         toolName |-> event.toolCallName,
                                         input |-> EmptyMap, output |-> "",
                                         status |-> "pending"]]
              [] event.type = "TOOL_CALL_ARGS" /\ t.phase = "started"
                     /\ JSONParse(event.args).ok
                     /\ IsJSONObject(JSONParse(event.args).value) ->
                   [t EXCEPT !.phase = "args",
                             !.expect.input = JSONParse(event.args).value]
              [] event.type = "TOOL_CALL_END" /\ t.phase = "args" ->
                   [t EXCEPT !.phase = "ended"]
              [] event.type = "TOOL_CALL_RESULT" /\ t.phase = "ended" ->
                   [t EXCEPT !.phase = "result", !.expect.output = event.result,
                             !.expect.status = event.status]
              [] OTHER -> Off(t)
        merged ==
            CASE event.type = "TOOL_CALL_START" -> EmptyMap
              [] event.type = "TOOL_CALL_ARGS" /\ t.named # "" /\ JSONParse(event.args).ok
                     /\ IsJSONObject(JSONParse(event.args).value) ->
                   JSONParse(event.args).value @@ t.merged
              [] OTHER -> t.merged
    IN  [tracked EXCEPT !.named = named, !.merged = merged]

IsPublished(id) == \E n \in 1..Len(messages) : messages[n].id = id

TrackEvent(event) ==
    /\ msgTrack' =
          IF "messageId" \in DOMAIN event /\ event.messageId \in MessageIds
          THEN [msgTrack EXCEPT ![event.messageId] =
                   TrackMessage(@, event, IsPublished(event.messageId))]
          ELSE msgTrack
    /\ toolTrack' =
          IF "toolCallId" \in DOMAIN event /\ event.toolCallId \in ToolCallIds
          THEN [toolTrack EXCEPT ![event.toolCallId] =
                   TrackToolCall(@, event,
                       "parentMessageId" \in DOMAIN event
                           /\ IsPublished(event.parentMessageId))]
          ELSE toolTrack
    /\ toolOrder' =
          IF event.type = "TOOL_CALL_START" /\ "parentMessageId" \in DOMAIN event
                /\ event.parentMessageId \in MessageIds
                /\ IsPublished(event.parentMessageId)
          THEN [toolOrder EXCEPT ![event.parentMessageId] = Append(@, event.toolCallId)]
          ELSE toolOrder

-----------------------------------------------------------------------------

\* await handleAGUIEvent(event, ...) for the next event of the chunk
HandleEvent(i) ==
    /\ pc[i] = "handle"
    /\ LET event == Head(queue[i])
           st == [messages |-> messages, error |-> error,
                  currentThreadId |-> currentThreadId, currentRunId |-> currentRunId,
                  agentState |-> agentState, completedSteps |-> completedSteps,
                  messageAccumulator |-> messageAccumulator[i],
                  toolCallAccumulator |-> toolCallAccumulator[i],
                  onErrorCalls |-> onErrorCalls, onMessageCalls |-> onMessageCalls,
                  uuids |-> uuids, threw |-> Null]
           after == handleAGUIEvent(event, st)
       IN  IF after.threw # Null
           THEN \* the await rethrows inside the try block of sendMessage
                /\ Catch(i, after.threw)
                /\ queue' = [queue EXCEPT ![i] = <<>>]
                /\ last' = Step("handle:threw", i, event)
                /\ UNCHANGED <<messages, currentThreadId, currentRunId, agentState,
                               completedSteps, messageAccumulator, toolCallAccumulator,
                               onMessageCalls, uuids, errored, msgTrack, toolTrack,
                               toolOrder>>
           ELSE /\ messages' = after.messages
                /\ error' = after.error
                /\ currentThreadId' = after.currentThreadId
                /\ currentRunId' = after.currentRunId
                /\ agentState' = after.agentState
                /\ completedSteps' = after.completedSteps
                /\ messageAccumulator' =
                      [messageAccumulator EXCEPT ![i] = after.messageAccumulator]
                /\ toolCallAccumulator' =
                      [toolCallAccumulator EXCEPT ![i] = after.toolCallAccumulator]
                /\ onErrorCalls' = after.onErrorCalls
                /\ onMessageCalls' = after.onMessageCalls
                /\ uuids' = after.uuids
                /\ errored' = [errored EXCEPT ![i] = @ \/ event.type = "RUN_ERROR"]
                /\ TrackEvent(event)
                /\ last' = Step("handle", i, event)
                /\ queue' = [queue EXCEPT ![i] = Tail(@)]
                /\ pc' = [pc EXCEPT ![i] =
                             IF Tail(queue[i]) = <<>> THEN "read" ELSE "handle"]
                /\ UNCHANGED isStreaming
    /\ UNCHANGED <<sseBuffer, wire, sent, fetches, pv>>

\* clearMessages without setError(null)
clearMessages_KeepError ==
    /\ messages' = <<>>
    /\ completedSteps' = <<>>
    /\ msgTrack' = [id \in MessageIds |-> IF msgTrack[id].phase = "none" THEN msgTrack[id]
                                           ELSE Off(msgTrack[id])]
    /\ toolTrack' = [id \in ToolCallIds |-> IF toolTrack[id].phase = "none" THEN toolTrack[id]
                                             ELSE Off(toolTrack[id])]
    /\ toolOrder' = [id \in MessageIds |-> <<>>]
    /\ last' = Step("clearMessages", 0, NoEvent)
    /\ UNCHANGED <<error, isStreaming, currentThreadId, currentRunId, agentState, pc,
                   sseBuffer, queue, messageAccumulator, toolCallAccumulator, wire,
                   sent, fetches, uuids, onErrorCalls, onMessageCalls, errored, pv>>

clearMessages ==
    /\ messages' = <<>>
    /\ error' = Null
    /\ completedSteps' = <<>>
    /\ msgTrack' = [id \in MessageIds |-> IF msgTrack[id].phase = "none" THEN msgTrack[id]
                                           ELSE Off(msgTrack[id])]
    /\ toolTrack' = [id \in ToolCallIds |-> IF toolTrack[id].phase = "none" THEN toolTrack[id]
                                             ELSE Off(toolTrack[id])]
    /\ toolOrder' = [id \in MessageIds |-> <<>>]
    /\ last' = Step("clearMessages", 0, NoEvent)
    /\ UNCHANGED <<isStreaming, currentThreadId, currentRunId, agentState, pc,
                   sseBuffer, queue, messageAccumulator, toolCallAccumulator, wire,
                   sent, fetches, uuids, onErrorCalls, onMessageCalls, errored, pv>>

-----------------------------------------------------------------------------
(* The records a server may write, per family of events *)

BadJSONRecord == Record(<<"{invalid json}">>)

LifecycleRecords == <<
    Record(Stringify(EvRunStarted)),
    Record(Stringify(EvRunError)),
    Record(Stringify(EvStartM1)),
    Record(Stringify(EvUnknown)),
    BadJSONRecord
>>

TextRecords == <<
    Record(Stringify(EvStartM1Sys)),
    Record(Stringify(EvStartM2)),
    Record(Stringify(EvContentM1a)),
    Record(Stringify(EvContentM1b)),
    Record(Stringify(EvContentM2a)),
    Record(Stringify(EvEndM1)),
    Record(Stringify(EvChunkM1))
>>

ToolRecords == <<
    Record(Stringify(EvStartM1)),
    Record(Stringify(EvToolStart1)),
    Record(Stringify(EvToolStart2)),
    Record(Stringify(EvToolArgs1)),
    Record(Stringify(EvToolArgs2)),
    Record(Stringify(EvToolArgsBad)),
    Record(Stringify(EvToolEnd1)),
    Record(Stringify(EvToolResult1)),
    Record(Stringify(EvToolResult2))
>>

ArgsRecords == <<
    Record(Stringify(EvStartM1)),
    Record(Stringify(EvToolStart1)),
    Record(Stringify(EvToolArgs1)),
    Record(Stringify(EvToolArgsMore)),
    Record(Stringify(EvToolArgsBad)),
    Record(Stringify(EvToolArgsText))
>>

\* A data line that no newline ends
Unterminated(payload) == DataPrefix \o payload

TailRecords == <<
    Record(Stringify(EvStartM1)),
    Record(Stringify(EvContentM1a)),
    Unterminated(Stringify(EvContentM1b)),
    Unterminated(Stringify(EvStartM2))
>>

ChunkRecords == <<
    Record(Stringify(EvChunkNoId)),
    Record(Stringify(EvChunkNoId2)),
    Record(Stringify(EvChunkM1)),
    Record(Stringify(EvStartM1)),
    Record(Stringify(EvContentM1a))
>>

StateRecords == <<
    Record(Stringify(EvRunStarted)),
    Record(Stringify(EvSnapshot)),
    Record(Stringify(EvDeltaReplace)),
    Record(Stringify(EvDeltaRemoveAbsent)),
    Record(Stringify(EvDeltaNoDelta))
>>

\* Events of every component, with and without the events of the run around them
RunRecords == <<
    Record(Stringify(EvRunStarted)),
    Record(Stringify(EvRunFinished)),
    Record(Stringify(EvStartM1)),
    Record(Stringify(EvContentM1a)),
    Record(Stringify(EvToolStart1)),
    Record(Stringify(EvSnapshot)),
    Record(Stringify(EvSnapshotEmpty))
>>

\* Step events, and events that set what clearMessages leaves or resets
StepRecords == <<
    Record(Stringify(EvStepStarted)),
    Record(Stringify(EvStepFinished)),
    Record(Stringify(EvStepFinished2)),
    Record(Stringify(EvRunStarted)),
    Record(Stringify(EvRunError)),
    Record(Stringify(EvSnapshot))
>>

\* The contents given to sendMessage where the content matters
PaddedContents == { <<"h", "i">>, <<" ", "h">>, <<" ">>, <<>> }

-----------------------------------------------------------------------------

HookInit ==
    /\ messages = <<>>
    /\ isStreaming = FALSE
    /\ error = Null
    /\ currentThreadId = Undefined
    /\ currentRunId = Undefined
    /\ agentState = AgentUndefined
    /\ completedSteps = <<>>
    /\ pc = [i \in Sends |-> "new"]
    /\ sseBuffer = [i \in Sends |-> <<>>]
    /\ queue = [i \in Sends |-> <<>>]
    /\ messageAccumulator = [i \in Sends |-> EmptyMap]
    /\ toolCallAccumulator = [i \in Sends |-> EmptyMap]
    /\ wire = [i \in Sends |-> <<>>]
    /\ sent = 0
    /\ fetches = 0
    /\ uuids = 0
    /\ onErrorCalls = <<>>
    /\ onMessageCalls = <<>>
    /\ last = Step("init", 0, NoEvent)
    /\ errored = [i \in Sends |-> FALSE]
    /\ msgTrack = [id \in MessageIds |-> MsgNone]
    /\ toolTrack = [id \in ToolCallIds |-> ToolNone]
    /\ toolOrder = [id \in MessageIds |-> <<>>]

Init == HookInit /\ pv = PvIdle

\* The environment of the hook: the records the server writes and how many,
\* how fetch and read may settle, whether the server writes again before its
\* text was read, whether the transport cuts inside the records, which
\* sendMessage calls are made and with which contents
HookNext(env) ==
    \/ SendMessage(env.slots, env.contents)
    \/ \E i \in Sends : FetchSettles(i, env.fetch)
    \/ \E i \in Sends : ServerWrites(i, env)
    \/ \E i \in Sends : ReadChunk(i, env.fragments)
    \/ \E i \in Sends : ReadEnds(i, env.read)
    \/ \E i \in Sends : HandleEvent(i)

\* Any failure of the transport, any fragmentation, lifecycle events, and the
\* user clearing the conversation at any moment
Next ==
    \/ HookNext([records |-> LifecycleRecords, maxRecords |-> MaxRecords,
                 fetch |-> {"ok", "rejected", "status", "nobody"},
                 read |-> {"done", "rejected"},
                 batches |-> TRUE, fragments |-> TRUE, slots |-> Sends,
                 contents |-> UserContents])
    \/ clearMessages

\* One response of a transport that does not fail and delivers one record per chunk
NextText == HookNext([records |-> TextRecords, maxRecords |-> MaxTextRecords,
                      fetch |-> {"ok"}, read |-> {"done"},
                      batches |-> FALSE, fragments |-> FALSE, slots |-> {1},
                      contents |-> UserContents])

NextTool == HookNext([records |-> ToolRecords, maxRecords |-> MaxToolRecords,
                      fetch |-> {"ok"}, read |-> {"done"},
                      batches |-> FALSE, fragments |-> FALSE, slots |-> {1},
                      contents |-> UserContents])

\* State events over a transport that may fail in every way
NextState == HookNext([records |-> StateRecords, maxRecords |-> MaxStateRecords,
                       fetch |-> {"ok", "rejected", "status", "nobody"},
                       read |-> {"done", "rejected"},
                       batches |-> TRUE, fragments |-> FALSE, slots |-> Sends,
                       contents |-> PaddedContents])

\* One response with events of every component
NextArgs == HookNext([records |-> ArgsRecords, maxRecords |-> MaxArgsRecords,
                      fetch |-> {"ok"}, read |-> {"done"},
                      batches |-> FALSE, fragments |-> FALSE, slots |-> {1},
                      contents |-> UserContents])

NextTail == HookNext([records |-> TailRecords, maxRecords |-> MaxTailRecords,
                      fetch |-> {"ok"}, read |-> {"done"},
                      batches |-> TRUE, fragments |-> TRUE, slots |-> {1},
                      contents |-> UserContents])

NextChunk == HookNext([records |-> ChunkRecords, maxRecords |-> MaxChunkRecords,
                       fetch |-> {"ok"}, read |-> {"done"},
                       batches |-> FALSE, fragments |-> FALSE, slots |-> {1},
                       contents |-> UserContents])

NextRun == HookNext([records |-> RunRecords, maxRecords |-> MaxRunRecords,
                     fetch |-> {"ok"}, read |-> {"done"},
                     batches |-> FALSE, fragments |-> FALSE, slots |-> {1},
                     contents |-> UserContents])

\* Step events of several responses, the user clearing at any moment
NextSteps ==
    \/ HookNext([records |-> StepRecords, maxRecords |-> MaxStepRecords,
                 fetch |-> {"ok"}, read |-> {"done"},
                 batches |-> TRUE, fragments |-> FALSE, slots |-> Sends,
                 contents |-> UserContents])
    \/ clearMessages

\* Text message events of one response, the user clearing at any moment
NextTextClear == NextText \/ clearMessages

\* What the runtime and the transport guarantee once a request is issued: the
\* fetch settles, a body that the server has finished ends or fails, and an
\* event that was decoded is handled
Progress ==
    \E i \in Sends :
        \/ FetchSettles(i, {"ok", "rejected", "status", "nobody"})
        \/ ReadEnds(i, {"done", "rejected"})
        \/ HandleEvent(i)

\* A chunk that has arrived is waiting for reader.read() to resolve
ChunkWaiting(i) == pc[i] = "read" /\ wire[i] # <<>>

\* reader.read() resolves when a chunk has arrived: ReadChunk(i, FALSE) is
\* enabled exactly when ChunkWaiting(i) and takes the whole chunk, so that
\* weak fairness of it says that again and again no chunk is waiting
ChunksAreRead == []<>(\A i \in Sends : ~ChunkWaiting(i))

Spec == Init /\ [][Next]_vars
SpecState == Init /\ [][NextState]_vars
SpecStateLive == Init /\ [][NextState]_vars /\ WF_vars(Progress) /\ ChunksAreRead
SpecTextClear == Init /\ [][NextTextClear]_vars
SpecRun == Init /\ [][NextRun]_vars
SpecSteps == Init /\ [][NextSteps]_vars
SpecText == Init /\ [][NextText]_vars
SpecTool == Init /\ [][NextTool]_vars
SpecArgs == Init /\ [][NextArgs]_vars
SpecTail == Init /\ [][NextTail]_vars
SpecChunk == Init /\ [][NextChunk]_vars

InitValidate == HookInit /\ pv = SequenceCall(<<>>)
NextValidate == AppendEvent
SpecValidate == InitValidate /\ [][NextValidate]_vars

InitComposer == HookInit /\ pv = ComposerInit
NextComposer == TypeCharacter \/ ClickSend \/ PressEnter \/ SetDisabled
SpecComposer == InitComposer /\ [][NextComposer]_vars

InitDelta == HookInit /\ pv \in {DeltaCall(state, <<>>) : state \in DeltaStates}
NextDelta == ApplyDelta
SpecDelta == InitDelta /\ [][NextDelta]_vars

InitParse == HookInit /\ pv \in ParseStreams
NextParse == FeedChunk \/ ParseWhole
SpecParse == InitParse /\ [][NextParse]_vars

-----------------------------------------------------------------------------
(* Properties of the parser, checked under SpecParse *)

\* C1: however the stream is cut into chunks, the events of the chunks fed so
\* far to parseSSEChunk (each call given the buffer the previous one returned,
\* the first the empty buffer), concatenated, and the buffer now held are the
\* events and the buffer that one call returns for the same text given as a
\* single chunk.
ChunkBoundaryIndependence ==
    pv.stream # <<>> =>
        LET whole == parseSSEChunk(<<>>, SubSeq(pv.stream, 1, pv.fed))
        IN  /\ pv.events = whole.events
            /\ pv.buffer = whole.buffer

\* C1: a whole stream was fed in chunks, one of which ended inside a line, and
\* two events came out
ChunkedStreamDecoded ==
    /\ pv.stream # <<>>
    /\ pv.fed = Len(pv.stream)
    /\ pv.carried
    /\ Len(pv.events) >= 2

ExpectedEvents(recs) == Concat([i \in 1..Len(recs) |-> ParseRecordEvents[recs[i]]])

\* The events of the unterminated last line, which only parseSSE decodes
ParseTailEvents == << <<>>, <<>>, <<EvEndM1>> >>

\* C10: parseSSEChunk and parseSSE never throw; a line without the "data: "
\* prefix, a payload that is not JSON and a payload without a string type
\* produce no event, and the records around them are decoded, in order: the
\* events of a stream are those of its well-formed records, in stream order.
ParserNeverThrows ==
    /\ ~pv.threw
    /\ pv.sse.run =>
          /\ ~pv.sse.threw
          /\ pv.sse.events = ExpectedEvents(pv.recs) \o ParseTailEvents[pv.tail]
    /\ (pv.stream # <<>> /\ pv.fed = Len(pv.stream)) =>
          pv.events = ExpectedEvents(pv.recs)

\* C10: a stream whose first record is not JSON and whose second is an event
\* went through both functions, and both returned the event
BadRecordThenEventDecoded ==
    /\ pv.recs = <<4, 2>>
    /\ pv.sse.run
    /\ pv.sse.events = <<EvContentM1a>> \o ParseTailEvents[pv.tail]
    /\ pv.fed = Len(pv.stream)
    /\ pv.events = <<EvContentM1a>>

-----------------------------------------------------------------------------
(* Properties of the hook *)

InFlight == {i \in Sends : Running(i)}

\* A step of call i that takes a chunk off the response, and the chunk
Reads(i) == pc[i] = "read" /\ Len(wire'[i]) < Len(wire[i])
ChunkRead(i) == SubSeq(wire[i], 1, Len(wire[i]) - Len(wire'[i]))

\* A step of call i that hands the next event of its chunk to handleAGUIEvent
Handles(i) == pc[i] = "handle" /\ queue'[i] # queue[i]

PublishedWith(id) == {n \in 1..Len(messages) : messages[n].id = id}

\* C2: under any interleaving of sendMessage calls with the progress of a
\* running send, at most one request and one read loop are in flight, and
\* isStreaming is true exactly while one is; no step taken while isStreaming
\* is true, a sendMessage call included, issues a fetch.
OneRequestInFlight ==
    /\ [](/\ Cardinality(InFlight) <= 1
          /\ isStreaming <=> InFlight # {})
    /\ [][isStreaming => fetches' = fetches]_vars

\* C2: a second send was accepted once the first had returned, and is reading
SecondSendAfterFirst ==
    /\ pc[1] = "done"
    /\ pc[2] = "read"
    /\ isStreaming
    /\ fetches = 2

\* The published state a response's events may change
Published == <<messages, agentState, completedSteps, currentThreadId, currentRunId>>

\* A chunk that holds more than the newlines ending the record before it
HoldsText(chunk) == \E k \in 1..Len(chunk) : chunk[k] # NL

\* C3: once a RUN_ERROR event of a response was handled, no further chunk of
\* that response is read (the newlines that end the RUN_ERROR record aside),
\* and no later event of it changes the published messages, tool results,
\* agentState, completedSteps, threadId or runId.
NothingAfterRunError ==
    [][\A i \in Sends : errored[i] =>
          /\ ~(Reads(i) /\ HoldsText(ChunkRead(i)))
          /\ Handles(i) => Published' = Published]_vars

\* C4: right after a RUN_ERROR event with a non-empty message m is handled,
\* error is m and the last call of onError carried m; and once the response
\* of that event has ended, with no later send running, isStreaming is false.
RunErrorReported ==
    /\ (last.op = "handle" /\ last.event.type = "RUN_ERROR"
            /\ Truthy(Field(last.event, "message"))) =>
          /\ error = last.event.message
          /\ onErrorCalls # <<>>
          /\ onErrorCalls[Len(onErrorCalls)] = last.event.message
    /\ \A i \in Sends :
          (errored[i] /\ pc[i] = "done" /\ InFlight = {}) => ~isStreaming

\* C4: a response carried RUN_ERROR "Agent failed" and then ended
RunErrorThenEnd ==
    \E i \in Sends :
        /\ errored[i]
        /\ pc[i] = "done"
        /\ error = "Agent failed"
        /\ onErrorCalls = <<"Agent failed">>
        /\ ~isStreaming

\* C5: for a message id not used before, after TEXT_MESSAGE_START(id, role),
\* any number of TEXT_MESSAGE_CONTENT(id, delta) and TEXT_MESSAGE_END(id), and
\* at every point in between, one published message has the id, with the role
\* given and the deltas concatenated in arrival order as content; the same
\* holds when a TEXT_MESSAGE_CHUNK(id, role, delta) opens the message: its
\* content is then delta.
MessageAccumulated ==
    \A id \in MessageIds :
        msgTrack[id].phase \in {"open", "ended"} =>
            /\ Cardinality(PublishedWith(id)) = 1
            /\ \A n \in PublishedWith(id) :
                  /\ messages[n].role = msgTrack[id].role
                  /\ messages[n].content = msgTrack[id].content

\* C5: START(m1, system), CONTENT a, CONTENT b, END were handled
TwoDeltasEnded ==
    /\ msgTrack["m1"].phase = "ended"
    /\ msgTrack["m1"].role = "system"
    /\ msgTrack["m1"].content = <<"a", "b">>

\* C6: after a TEXT_MESSAGE_CONTENT(id, delta) that is the first event for id
\* in the run, a message with that id, the role assistant and the content
\* delta is published.
ImplicitMessagePublished ==
    \A id \in MessageIds :
        msgTrack[id].phase = "implicit" =>
            \E n \in PublishedWith(id) :
                /\ messages[n].role = "assistant"
                /\ messages[n].content = msgTrack[id].content

\* The tool results of the published message n that carry the id tc
EntriesOf(n, tc) ==
    {k \in 1..Len(ToolResultsOf(messages[n])) : ToolResultsOf(messages[n])[k].id = tc}

\* C7: after TOOL_CALL_START(tc, name, P) with P published, TOOL_CALL_ARGS(tc,
\* the text of a JSON object), TOOL_CALL_END(tc) and TOOL_CALL_RESULT(tc,
\* result, status), the toolResults of P hold exactly one entry with id tc,
\* and it has toolName name, the parsed object as input, output result and
\* the status given.
ToolCallAccumulated ==
    \A tc \in ToolCallIds :
        toolTrack[tc].phase = "result" =>
            /\ Cardinality(PublishedWith(toolTrack[tc].parent)) = 1
            /\ \A n \in PublishedWith(toolTrack[tc].parent) :
                  /\ Cardinality(EntriesOf(n, tc)) = 1
                  /\ \A k \in EntriesOf(n, tc) :
                        messages[n].toolResults[k] = toolTrack[tc].expect

\* C7: the four events of tool call tc1 were handled under message m1
ToolCallCompleted ==
    /\ toolTrack["tc1"].phase = "result"
    /\ toolTrack["tc1"].parent = "m1"
    /\ toolTrack["tc1"].expect.output = "Found 5 results"

ToolIds(message) ==
    [k \in 1..Len(ToolResultsOf(message)) |-> ToolResultsOf(message)[k].id]

\* The step leaves every tool result alone whose id is not tc
OtherEntriesUnchanged(tc) ==
    /\ Len(messages') = Len(messages)
    /\ \A n \in 1..Len(messages) :
          /\ Len(ToolResultsOf(messages'[n])) = Len(ToolResultsOf(messages[n]))
          /\ \A k \in 1..Len(ToolResultsOf(messages[n])) :
                ToolResultsOf(messages[n])[k].id # tc =>
                    ToolResultsOf(messages'[n])[k] = ToolResultsOf(messages[n])[k]

\* C8: the toolResults of a message list the tool calls started under it in
\* the arrival order of their TOOL_CALL_START events, and handling a
\* TOOL_CALL_ARGS or TOOL_CALL_RESULT of one tool call id changes no entry
\* with another id, however the events of the calls interleave.
ToolCallsInStartOrder ==
    /\ [](\A n \in 1..Len(messages) :
            messages[n].id \in MessageIds =>
                ToolIds(messages[n]) = toolOrder[messages[n].id])
    /\ [][\A i \in Sends :
            (Handles(i) /\ Head(queue[i]).type \in {"TOOL_CALL_ARGS", "TOOL_CALL_RESULT"})
                => OtherEntriesUnchanged(Head(queue[i]).toolCallId)]_vars

\* C8: tc1 and tc2 were started under m1 in that order, and the arguments of
\* tc2 arrived before any of tc1
SecondCallArgsFirst ==
    \E n \in PublishedWith("m1") :
        /\ ToolIds(messages[n]) = <<"tc1", "tc2">>
        /\ messages[n].toolResults[1].input = EmptyMap
        /\ messages[n].toolResults[2].input = [x |-> "1"]

\* The signals and the callbacks of the hook
Signals == <<messages, isStreaming, error, currentThreadId, currentRunId, agentState,
             completedSteps, onErrorCalls, onMessageCalls>>

\* A complete line whose payload is not JSON
IsBadLine(line) ==
    /\ StartsWith(line, DataPrefix)
    /\ Trim(Slice(line, 6)) # <<>>
    /\ ~JSONParse(Trim(Slice(line, 6))).ok

RECURSIVE Join(_)
Join(lines) ==
    IF Len(lines) <= 1 THEN Concat(lines)
    ELSE Head(lines) \o <<NL>> \o Join(Tail(lines))

\* The text with its complete lines that are not JSON taken out
WithoutBadLines(text) ==
    LET lines == Split(text)
        keep(l) == ~IsBadLine(l)
    IN  Join(SelectSeq(SubSeq(lines, 1, Len(lines) - 1), keep) \o <<lines[Len(lines)]>>)

\* The steps that may set error: a RUN_ERROR event, fetch or read failing
ErrorCauses == {"fetch:rejected", "fetch:status", "fetch:nobody", "read:rejected"}

\* C9: reading a chunk changes no signal and calls no callback, whatever
\* records it holds, and hands on the events the same text holds without its
\* records that are not JSON; handling an event of an unknown type changes no
\* signal, calls no callback and leaves both accumulators as they are; error
\* is set only by a RUN_ERROR event or by fetch or read failing; and once
\* every response has ended isStreaming is false.
BadRecordsIgnored ==
    /\ [][\A i \in Sends :
            /\ Reads(i) =>
                  /\ Signals' = Signals
                  /\ pc'[i] \in {"read", "handle"}
                  /\ queue'[i] = parseSSEChunk(<<>>,
                                     WithoutBadLines(sseBuffer[i] \o ChunkRead(i))).events
            /\ (Handles(i) /\ Head(queue[i]).type \notin KnownEventTypes) =>
                  /\ Signals' = Signals
                  /\ messageAccumulator' = messageAccumulator
                  /\ toolCallAccumulator' = toolCallAccumulator]_vars
    /\ [][(error' # error /\ error' # Null) =>
            \/ last'.op \in ErrorCauses
            \/ last'.op = "handle" /\ last'.event.type = "RUN_ERROR"]_vars
    /\ [](\A i \in Sends : (pc[i] = "done" /\ InFlight = {}) => ~isStreaming)

\* C9: an event of an unknown type was handled after RUN_STARTED had set the
\* run id, and no error is published
UnknownEventHandled ==
    /\ last.op = "handle"
    /\ last.event = EvUnknown
    /\ currentRunId = "r1"
    /\ error = Null
    /\ onErrorCalls = <<>>

-----------------------------------------------------------------------------
(* The request fails, an event handler throws                               *)

\* The step in which the fetch of call i settles with the given outcome
FetchSettlesWith(i, outcome) ==
    /\ pc[i] = "fetch"
    /\ pc'[i] # "fetch"
    /\ last'.op = "fetch:" \o outcome
    /\ last'.call = i

\* C11: when the request is rejected or answered with a status that is not a
\* success, error becomes the failure message, onError is called with it,
\* isStreaming becomes false, the call is over without any stream event
\* having been decoded or applied, currentThreadId, currentRunId and
\* agentState are unchanged, and messages (the user message of the send
\* included) are unchanged.
FailedRequestReported ==
    [][\A i \in Sends : \A outcome \in {"rejected", "status"} :
          FetchSettlesWith(i, outcome) =>
             /\ error' = (IF outcome = "rejected" THEN "Failed to fetch"
                                                  ELSE "HTTP error! status: 500")
             /\ onErrorCalls' = Append(onErrorCalls, error')
             /\ ~isStreaming'
             /\ pc'[i] = "done"
             /\ wire'[i] = <<>> /\ queue'[i] = <<>> /\ sent' = sent
             /\ messageAccumulator' = messageAccumulator
             /\ toolCallAccumulator' = toolCallAccumulator
             /\ <<currentThreadId, currentRunId, agentState>>' =
                   <<currentThreadId, currentRunId, agentState>>
             /\ completedSteps' = completedSteps
             /\ messages' = messages
             /\ messages # <<>>
             /\ messages[Len(messages)] =
                   UserMessage(UUID(uuids), messages[Len(messages)].content)]_vars

\* C11: the second request was answered with status 500 after the first one
\* had set the agent state, and the state and both user messages are there
SecondRequestRefused ==
    /\ last.op = "fetch:status"
    /\ last.call = 2
    /\ error = "HTTP error! status: 500"
    /\ onErrorCalls = <<"HTTP error! status: 500">>
    /\ ~isStreaming
    /\ agentState # AgentUndefined
    /\ Len(messages) = 2

\* The steps in which a call fails: the transport, or the handling of an event
FailureSteps == {"fetch:rejected", "fetch:status", "fetch:nobody", "read:rejected",
                 "read:threw", "handle:threw"}

\* C12: no sendMessage call ever ends by rejecting its promise; when the
\* transport fails or the handling of a stream event throws, the call is
\* over, error holds the failure and onError was called with it last.
PromiseNeverRejects ==
    /\ \A i \in Sends : pc[i] # "rejected"
    /\ last.op \in FailureSteps =>
          /\ pc[last.call] = "done"
          /\ error # Null
          /\ onErrorCalls # <<>>
          /\ onErrorCalls[Len(onErrorCalls)] = error

\* C12: the handling of a STATE_DELTA event threw and the call ended with the
\* error published
HandlerFailureReported ==
    /\ last.op = "handle:threw"
    /\ last.event.type = "STATE_DELTA"
    /\ pc[last.call] = "done"
    /\ error = TypeErrorMessage
    /\ onErrorCalls = <<TypeErrorMessage>>

\* C13: handling a decoded event other than RUN_ERROR leaves error as it is
\* and the call goes on with the events that follow it.
OtherEventsKeepRunGoing ==
    [][\A i \in Sends :
          (Handles(i) /\ Head(queue[i]).type # "RUN_ERROR") =>
             /\ error' = error
             /\ queue'[i] = Tail(queue[i])
             /\ pc'[i] \in {"read", "handle"}]_vars

-----------------------------------------------------------------------------
(* clearMessages while a response is streaming                              *)

\* The step is a clearMessages call
ClearStep ==
    /\ last'.op = "clearMessages"
    /\ messages' = <<>>
    /\ <<pc, queue, wire, sent>>' = <<pc, queue, wire, sent>>

\* The content published under the id after the step
ContentOf(id) == messages'[CHOOSE n \in 1..Len(messages') : messages'[n].id = id].content

\* The message of the id is published by the step, which handles a delta
PublishesOnDelta(i, id) ==
    /\ Handles(i)
    /\ Head(queue[i]).type \in {"TEXT_MESSAGE_CONTENT", "TEXT_MESSAGE_CHUNK"}
    /\ Field(Head(queue[i]), "messageId") = id
    /\ ~IsPublished(id)
    /\ \E n \in 1..Len(messages') : messages'[n].id = id

\* C14: a clearMessages call made while a response is streaming leaves the
\* message and tool call accumulators of that response empty, and a message
\* that a delta publishes afterwards holds that delta only, nothing that
\* arrived before the clear.
ClearResetsAccumulators ==
    /\ [][ClearStep =>
            \A i \in Sends : Running(i) =>
               /\ messageAccumulator'[i] = EmptyMap
               /\ toolCallAccumulator'[i] = EmptyMap]_vars
    /\ [][\A i \in Sends : \A id \in MessageIds :
            PublishesOnDelta(i, id) => ContentOf(id) = Head(queue[i]).delta]_vars

-----------------------------------------------------------------------------
(* Repeated events, order and growth of the published messages              *)

\* The event opens again a message that a TEXT_MESSAGE_START event of the same
\* response opened before (the chunk events written carry another role than
\* the start events, so that the role tells which event opened the message)
RepeatedStart(event) ==
    /\ event.type = "TEXT_MESSAGE_START"
    /\ msgTrack[event.messageId].phase \in {"open", "ended"}
    /\ msgTrack[event.messageId].role = OrElse(Field(event, "role"), "assistant")

\* The event ends a message that was opened and ended before
RepeatedEnd(event) ==
    /\ event.type = "TEXT_MESSAGE_END"
    /\ msgTrack[event.messageId].phase = "ended"

\* C15: a TEXT_MESSAGE_START or TEXT_MESSAGE_END event repeated for a message
\* id leaves the accumulated message and the published messages as they
\* were.
RepeatedStartEndIdempotent ==
    [][\A i \in Sends :
          (Handles(i) /\ (RepeatedStart(Head(queue[i])) \/ RepeatedEnd(Head(queue[i])))) =>
             /\ messageAccumulator'[i] = messageAccumulator[i]
             /\ messages' = messages]_vars

\* C16: no two published messages have the same id, and no two entries of
\* the toolResults of a published message have the same id.
Distinct(ids) == \A n, k \in 1..Len(ids) : ids[n] = ids[k] => n = k

IdsOf(list) == [n \in 1..Len(list) |-> list[n].id]

UniqueIds ==
    /\ Distinct(IdsOf(messages))
    /\ \A n \in 1..Len(messages) : Distinct(IdsOf(ToolResultsOf(messages[n])))

\* old is an initial part of new
Extends(old, new) == Len(old) <= Len(new) /\ SubSeq(new, 1, Len(old)) = old

\* C17: handling a stream event only appends to the content of a published
\* message: the content it had before is an initial part of the content it
\* has afterwards.
ContentAppendOnly ==
    [][\A i \in Sends : Handles(i) =>
          \A n \in 1..Len(messages) : \A k \in 1..Len(messages') :
             messages'[k].id = messages[n].id =>
                Extends(messages[n].content, messages'[k].content)]_vars

\* C18: a step other than a clearMessages call removes no published message
\* and does not change their order: the ids published before the step are
\* the first ids published after it.
OrderStable ==
    [][ClearStep \/ Extends(IdsOf(messages), IdsOf(messages'))]_vars

\* C18: the content of m2 was updated in place while m1, published after it,
\* is behind it
UpdatedInPlace ==
    /\ last.op = "handle"
    /\ last.event = EvContentM2a
    /\ IdsOf(messages) = <<"uuid-1", "m2", "m1">>
    /\ messages[2].content = EvContentM2a.delta

-----------------------------------------------------------------------------
(* isStreaming from the accepted send to the end of the call                *)

\* C19: isStreaming is true as long as an accepted sendMessage call has not
\* ended; the step that ends the call, whichever it is (fetch rejected,
\* status that is not a success, no body, stream closed or failed, exception
\* while an event is handled), leaves isStreaming false; and every accepted
\* call does end, given that the request terminates.
StreamingUntilDone ==
    /\ [](\A i \in Sends : Running(i) => isStreaming)
    /\ [][\A i \in Sends : (Running(i) /\ ~Running(i)') =>
             (pc'[i] = "done" /\ ~isStreaming')]_vars
    /\ \A i \in Sends : Running(i) ~> (pc[i] = "done" /\ ~isStreaming)

\* C19: the second call has ended on a failing read, after the first one had
\* ended and left an agent state
BothCallsEnded ==
    /\ pc = <<"done", "done">>
    /\ last.op = "read:rejected"
    /\ last.call = 2
    /\ agentState # AgentUndefined
    /\ ~isStreaming

\* C20: a sendMessage call that is accepted appends, before its request
\* settles, one user message holding the content as given, sets isStreaming
\* to true and error to null, and touches no other message.
AcceptedSendPublishes ==
    [][fetches' # fetches =>
          /\ last'.op = "sendMessage"
          /\ ~Rejected(last'.event.content)
          /\ pc[last'.call] = "new" /\ pc'[last'.call] = "fetch"
          /\ messages' = Append(messages, [id |-> UUID(uuids'), role |-> "user",
                                           content |-> last'.event.content])
          /\ ~IsPublished(UUID(uuids'))
          /\ isStreaming'
          /\ error' = Null
          /\ fetches' = fetches + 1]_vars

\* C20: the second call was accepted with content " h" after the first one had
\* failed, and its message is published with the blank in front
PaddedContentSent ==
    /\ last.op = "sendMessage"
    /\ last.call = 2
    /\ last.event.content = <<" ", "h">>
    /\ Len(messages) = 2
    /\ messages[2].content = <<" ", "h">>
    /\ messages[2].role = "user"
    /\ isStreaming
    /\ error = Null

-----------------------------------------------------------------------------
(* Rejected sends, the request of an accepted send                          *)

\* The step is made by a sendMessage call: only sendMessage takes a call out
\* of "new", issues a request or records itself as the latest step
SendStep ==
    \/ \E i \in Sends : pc[i] = "new" /\ pc'[i] # "new"
    \/ fetches' # fetches
    \/ last'.op = "sendMessage" /\ last' # last

\* C21: a sendMessage call made while isStreaming is true, or with a content
\* that is empty or white space only, changes nothing: every step by which
\* sendMessage issues a request, appends a message, calls onMessage or
\* changes a signal starts with isStreaming false and has a content that is
\* not blank.
RejectedSendIsNoOp ==
    [][SendStep =>
          /\ ~isStreaming
          /\ last'.op = "sendMessage"
          /\ Trim(last'.event.content) # <<>>]_vars

\* C21: a response is streaming while the second call has not been accepted,
\* after a call with any content was possible
SendWhileStreaming ==
    /\ pc = <<"handle", "new">>
    /\ isStreaming
    /\ fetches = 1
    /\ Len(messages) = 1
    /\ Len(onMessageCalls) = 1

\* C25: the request of an accepted send carries the published messages, the
\* new user message once and last, and the thread and run id that the
\* latest RUN_STARTED event handled left (undefined, hence absent, when
\* there was none); a step that ends a call leaves both ids as they are.
RequestCarriesHistory ==
    /\ [][fetches' # fetches =>
            LET body == last'.event.body
                sentMessage == body.messages[Len(body.messages)]
            IN  /\ body.messages = messages'
                /\ SubSeq(body.messages, 1, Len(body.messages) - 1) = messages
                /\ sentMessage.role = "user"
                /\ sentMessage.content = last'.event.content
                /\ \A n \in 1..(Len(body.messages) - 1) :
                      body.messages[n].id # sentMessage.id
                /\ body.threadId = currentThreadId
                /\ body.runId = currentRunId
                /\ <<currentThreadId, currentRunId>>' = <<currentThreadId, currentRunId>>]_vars
    /\ [][\A i \in Sends :
            (Handles(i) /\ Head(queue[i]).type = "RUN_STARTED" /\ last'.op = "handle") =>
               /\ currentThreadId' = Field(Head(queue[i]), "threadId")
               /\ currentRunId' = Field(Head(queue[i]), "runId")]_vars
    /\ [][(<<currentThreadId, currentRunId>>' # <<currentThreadId, currentRunId>>) =>
            (last'.op = "handle" /\ last'.event.type = "RUN_STARTED")]_vars
    /\ [](fetches = 0 => (currentThreadId = Undefined /\ currentRunId = Undefined))

\* C25: the second request was issued with the ids of the run of the first
\* one and with both user messages
SecondRequestResumes ==
    /\ last.op = "sendMessage"
    /\ last.call = 2
    /\ last.event.body.threadId = "t1"
    /\ last.event.body.runId = "r1"
    /\ Len(last.event.body.messages) >= 2
    /\ pc[1] = "done"

-----------------------------------------------------------------------------
(* applyStateDelta                                                          *)

Supported(operation) == operation.op \in {"add", "replace", "remove"}

\* C22: the operations move, copy and test of a delta change nothing and
\* hide no other operation: applyStateDelta returns (or throws) for the
\* delta what it does for the delta without them, its add, replace and
\* remove operations in the same order.
UnsupportedSkipped ==
    LET applied == SelectSeq(pv.delta, Supported)
    IN  /\ pv.out = applyStateDelta(pv.state, applied)
        /\ applied = <<>> => pv.out = [threw |-> FALSE, state |-> pv.state]

\* C22: replace /counter, then move, then add /status: both are applied
OperationsAroundMove ==
    /\ Len(pv.delta) = 3
    /\ pv.delta[1].op = "replace" /\ pv.delta[2].op = "move" /\ pv.delta[3].op = "add"
    /\ pv.delta[3].path = <<"/", "status">>
    /\ ~pv.out.threw
    /\ pv.out.state.object =
          (<<"counter">> :> "1") @@ (<<"mode">> :> "active") @@ (<<"status">> :> "running")

\* The paths of the tree that the operation does not address: neither at,
\* under nor above its path
Unaddressed(tree, operation) ==
    {q \in DOMAIN tree : /\ ~IsPrefix(PathParts(operation.path), q)
                         /\ ~IsPrefix(q, PathParts(operation.path))}

\* What one more operation makes of the tree that the delta had produced
AppliedTo(before, after, operation) ==
    LET parts == PathParts(operation.path)
    IN  /\ operation.op \in {"add", "replace"} =>
              /\ after[parts] = operation.value.prim
              /\ \A n \in 1..(Len(parts) - 1) : Kind(after, SubSeq(parts, 1, n)) = "object"
        /\ operation.op = "remove" => Kind(after, parts) = "absent"
        /\ ~Supported(operation) => after = before
        /\ Unaddressed(after, operation) = Unaddressed(before, operation)
        /\ \A q \in Unaddressed(before, operation) : after[q] = before[q]

\* C23: applyStateDelta returns for every state and delta; the state given is
\* not modified; and each add, replace or remove operation, applied to what
\* the operations before it produced, sets the value at its path (with the
\* objects missing on the way), or deletes the key at its path, and leaves
\* every key it does not address with its value.
DeltaApplied ==
    /\ [](~pv.out.threw)
    /\ [][pv'.delta # pv.delta =>
             /\ pv'.state = pv.state
             /\ pv'.delta = Append(pv.delta, pv'.delta[Len(pv'.delta)])
             /\ (~pv.out.threw /\ ~pv'.out.threw) =>
                   AppliedTo(pv.out.state.object, pv'.out.state.object,
                             pv'.delta[Len(pv'.delta)])]_vars

-----------------------------------------------------------------------------
(* State snapshots, events outside a run, steps                             *)

\* C24: handling a STATE_SNAPSHOT event leaves agentState equal to the state
\* the event carries, whatever JSON value that is, with nothing of the
\* agentState before.
SnapshotReplacesState ==
    [][\A i \in Sends :
          (Handles(i) /\ Head(queue[i]).type = "STATE_SNAPSHOT") =>
             agentState' = Head(queue[i]).state]_vars

\* What handleAGUIEvent reads when call i handles an event
StateAt(i) ==
    [messages |-> messages, error |-> error,
     currentThreadId |-> currentThreadId, currentRunId |-> currentRunId,
     agentState |-> agentState, completedSteps |-> completedSteps,
     messageAccumulator |-> messageAccumulator[i],
     toolCallAccumulator |-> toolCallAccumulator[i],
     onErrorCalls |-> onErrorCalls, onMessageCalls |-> onMessageCalls,
     uuids |-> uuids, threw |-> Null]

\* The same inside a run that RUN_STARTED has opened
InsideRun(st) == [st EXCEPT !.currentThreadId = "t1", !.currentRunId = "r1"]

\* The events of the messages, the tool calls and the agent state
ComponentEventTypes ==
    {"TEXT_MESSAGE_START", "TEXT_MESSAGE_CONTENT", "TEXT_MESSAGE_END", "TEXT_MESSAGE_CHUNK",
     "TOOL_CALL_START", "TOOL_CALL_ARGS", "TOOL_CALL_END", "TOOL_CALL_RESULT",
     "STATE_SNAPSHOT", "STATE_DELTA"}

\* C27: a message, tool call or state event is applied in the same way
\* whether or not RUN_STARTED was handled before it and whether or not
\* RUN_FINISHED was: what the step publishes and accumulates is what
\* handleAGUIEvent yields inside a run; error stays null; and isStreaming
\* is false once the response has ended, with or without a closing event.
NoLifecycleGate ==
    /\ [][\A i \in Sends :
            (Handles(i) /\ Head(queue[i]).type \in ComponentEventTypes) =>
               LET inRun == handleAGUIEvent(Head(queue[i]), InsideRun(StateAt(i)))
               IN  /\ messages' = inRun.messages
                   /\ agentState' = inRun.agentState
                   /\ messageAccumulator'[i] = inRun.messageAccumulator
                   /\ toolCallAccumulator'[i] = inRun.toolCallAccumulator
                   /\ onMessageCalls' = inRun.onMessageCalls
                   /\ error' = Null
                   /\ pc'[i] \in {"read", "handle"}
                   /\ <<currentThreadId, currentRunId>>' = <<currentThreadId, currentRunId>>]_vars
    /\ [](error = Null)
    /\ [](\A i \in Sends : pc[i] = "done" => ~isStreaming)

\* C27: a response without RUN_STARTED and without a closing event has ended:
\* its message, with its delta and its tool call, and its state are published
EventsWithoutRun ==
    /\ pc[1] = "done"
    /\ currentRunId = Undefined
    /\ ~isStreaming
    /\ error = Null
    /\ Len(messages) = 2
    /\ messages[2].id = "m1"
    /\ messages[2].content = EvContentM1a.delta
    /\ Len(messages[2].toolResults) = 1
    /\ agentState = EvSnapshot.state

\* C28: completedSteps is empty at first; handling a STEP_FINISHED event
\* appends its stepName, clearMessages empties the list, and no other step
\* (a STEP_STARTED event, a sendMessage call, the end of a response)
\* changes it.
StepsLogged ==
    /\ [](fetches = 0 => completedSteps = <<>>)
    /\ [][IF ClearStep THEN completedSteps' = <<>>
          ELSE IF \E i \in Sends : Handles(i) /\ Head(queue[i]).type = "STEP_FINISHED"
          THEN \E i \in Sends :
                  /\ Handles(i)
                  /\ completedSteps' = Append(completedSteps, Head(queue[i]).stepName)
          ELSE completedSteps' = completedSteps]_vars

\* C28: the second response finished step s1 after the first one had finished
\* step s2, a STEP_STARTED event having been handled in between
StepsOfTwoResponses ==
    /\ completedSteps = <<"s2", "s1">>
    /\ last.op = "handle"
    /\ last.call = 2
    /\ last.event = EvStepFinished
    /\ fetches = 2

\* C29: a clearMessages call leaves messages empty, error null and
\* completedSteps empty, and changes neither isStreaming, currentThreadId,
\* currentRunId and agentState nor the calls that are running.
ClearEffects ==
    [][(last'.op = "clearMessages" /\ <<pc, queue, wire, sent>>' = <<pc, queue, wire, sent>>) =>
          /\ messages' = <<>>
          /\ error' = Null
          /\ completedSteps' = <<>>
          /\ <<isStreaming, currentThreadId, currentRunId, agentState>>' =
                <<isStreaming, currentThreadId, currentRunId, agentState>>
          /\ <<fetches, onErrorCalls, onMessageCalls>>' =
                <<fetches, onErrorCalls, onMessageCalls>>]_vars

\* C29: messages were cleared while the response was streaming, after it had
\* delivered a RUN_ERROR event, a run id and an agent state
ClearedWhileStreaming ==
    /\ last.op = "clearMessages"
    /\ isStreaming
    /\ errored[1]
    /\ pc[1] \in {"read", "handle"}
    /\ messages = <<>>
    /\ error = Null
    /\ onErrorCalls # <<>>
    /\ currentRunId = "r1"
    /\ agentState = EvSnapshot.state

-----------------------------------------------------------------------------
(* onMessage                                                                *)

\* The message that the step passes to onMessage, the call it adds
PassedToOnMessage == onMessageCalls'[Len(onMessageCalls')]

\* Call i handles a TEXT_MESSAGE_END event for a message that is published
EndsPublished(i) ==
    /\ Handles(i)
    /\ Head(queue[i]).type = "TEXT_MESSAGE_END"
    /\ IsPublished(Head(queue[i]).messageId)

\* C26: onMessage is called once, with the user message, by a sendMessage
\* call that is accepted, and once by each TEXT_MESSAGE_END event handled
\* for a published message, with the message of that id holding all the
\* deltas received for it so far; no other step calls it.
OnMessageCalled ==
    [][IF fetches' # fetches
       THEN /\ onMessageCalls' = Append(onMessageCalls, messages'[Len(messages')])
            /\ PassedToOnMessage.role = "user"
       ELSE IF \E i \in Sends : EndsPublished(i)
       THEN \E i \in Sends :
               /\ EndsPublished(i)
               /\ Len(onMessageCalls') = Len(onMessageCalls) + 1
               /\ SubSeq(onMessageCalls', 1, Len(onMessageCalls)) = onMessageCalls
               /\ PassedToOnMessage.id = Head(queue[i]).messageId
               /\ PassedToOnMessage.content = msgTrack[Head(queue[i]).messageId].received
       ELSE onMessageCalls' = onMessageCalls]_vars

-----------------------------------------------------------------------------
(* parseSSEChunk: what ends a record                                        *)

\* The text given to parseSSEChunk so far, over all its calls
FedText == SubSeq(pv.stream, 1, pv.fed)

\* The index of the last newline of the text, 0 when there is none
LastNewline(text) ==
    LET ends == {k \in 1..Len(text) : text[k] = NL}
    IN  IF ends = {} THEN 0 ELSE CHOOSE k \in ends : \A j \in ends : j <= k

\* The text given ends with the newline of a data line, and the blank line
\* that ends the record is the next thing to come
DataLinePending ==
    /\ pv.fed > 0
    /\ pv.fed < Len(pv.stream)
    /\ FedText[pv.fed] = NL
    /\ pv.stream[pv.fed + 1] = NL
    /\ LET lines == Split(FedText)
       IN  StartsWith(lines[Len(lines) - 1], DataPrefix)

\* The data line that is pending, and the text before it
PendingLine == LET lines == Split(FedText) IN lines[Len(lines) - 1]

BeforePendingLine == SubSeq(FedText, 1, pv.fed - Len(PendingLine) - 1)

\* C30 (as claimed): while the blank line of a record has not been given, the
\* event of its data line is not emitted and the text of the line is in the
\* buffer that parseSSEChunk returns.
EmitsAtBlankLine ==
    DataLinePending =>
       /\ pv.events = parseSSE(BeforePendingLine).events
       /\ StartsWith(pv.buffer, PendingLine)

\* C30 (amended): parseSSEChunk works line by line: the events emitted are
\* those of the lines that the text given so far ends with a newline, and
\* the buffer is the text after the last newline; the event of a data line
\* is emitted once its own newline is there, before the blank line.
EmitsAtNewline ==
    /\ pv.events = parseSSE(SubSeq(FedText, 1, LastNewline(FedText))).events
    /\ pv.buffer = SubSeq(FedText, LastNewline(FedText) + 1, pv.fed)
    /\ DataLinePending =>
          /\ pv.buffer = <<>>
          /\ pv.events = parseSSE(FedText).events

\* C30: the text given ends with the newline of the RUN_FINISHED data line,
\* the blank line is still to come, and the event is emitted already
EventBeforeBlankLine ==
    /\ pv.recs = <<1>>
    /\ pv.tail = 1
    /\ DataLinePending
    /\ pv.events = <<EvRunFinished>>
    /\ pv.buffer = <<>>

-----------------------------------------------------------------------------
(* C31: tool calls started before their parent message                      *)

\* The ids of the tool results that the published messages with this id hold
AttachedTo(id) ==
    {tc \in ToolCallIds :
        \E n \in PublishedWith(id) :
            \E k \in 1..Len(ToolResultsOf(messages[n])) :
                ToolResultsOf(messages[n])[k].id = tc}

\* C31: once the response of a call has been read to its end, every tool call
\* whose TOOL_CALL_START was handled, naming a parent message that is published,
\* has an entry in the toolResults of that message, whether the parent was
\* started before the tool call or after it.
ToolCallReachesParent ==
    \A i \in Sends : \A tc \in ToolCallIds :
        (pc[i] = "done"
            /\ toolTrack[tc].named \in MessageIds /\ IsPublished(toolTrack[tc].named))
        => tc \in AttachedTo(toolTrack[tc].named)

-----------------------------------------------------------------------------
(* C32: STATE_DELTA before any agent state                                  *)

\* C32: a STATE_DELTA event handled while agentState has never been set leaves
\* as agentState the result of applying its operations, in order, to the empty
\* object.
DeltaOnUnsetState ==
    [][\A i \in Sends :
          (/\ Handles(i)
           /\ Head(queue[i]).type = "STATE_DELTA"
           /\ "delta" \in DOMAIN Head(queue[i])
           /\ agentState = AgentUndefined
           /\ ~applyStateDelta([object |-> EmptyMap], Head(queue[i]).delta).threw)
          => agentState' =
                applyStateDelta([object |-> EmptyMap], Head(queue[i]).delta).state]_vars

-----------------------------------------------------------------------------
(* C33: records whose type is not a known event kind                        *)

\* The lines of a text that a newline ends
CompleteLines(text) ==
    LET lines == Split(text)
    IN  IF EndsWithNewline(text) THEN lines ELSE SubSeq(lines, 1, Len(lines) - 1)

UnknownLine == DataPrefix \o Stringify(EvUnknown)

Count(seq, x) == Cardinality({k \in 1..Len(seq) : seq[k] = x})

\* C33 as stated: no event whose type is not a known event kind leaves the
\* decoder.
NoUnknownKindEmitted ==
    \A i \in Sends : \A k \in 1..Len(queue[i]) : queue[i][k].type \in EventType

\* C33: the decoder emits an event for every data line whose payload is a JSON
\* object with a string type, one of the known event kinds or not: each
\* complete line carrying {"type":"UNKNOWN_EVENT",...} gives one event of that
\* type, and every event emitted has a string type.
UnknownKindEmitted ==
    /\ [][\A i \in Sends :
            Reads(i) => Count(queue'[i], EvUnknown)
                           = Count(CompleteLines(sseBuffer[i] \o ChunkRead(i)),
                                   UnknownLine)]_vars
    /\ [](\A i \in Sends : \A k \in 1..Len(queue[i]) : HasStringType(queue[i][k]))

\* A chunk has given the event of unknown kind after a known one
UnknownKindQueued ==
    /\ pc[1] = "handle"
    /\ queue[1] = <<EvRunStarted, EvUnknown>>

-----------------------------------------------------------------------------
(* C34: the input of a tool call over its TOOL_CALL_ARGS events             *)

\* C34: after any sequence of TOOL_CALL_ARGS events the input that the
\* accumulator holds for a tool call is the merge, later keys winning, of the
\* payloads that parsed as JSON objects, and the published entry of the tool
\* call shows it; no TOOL_CALL_ARGS event, parsable or not, throws or sets error.
ArgsMerged ==
    /\ [](\A i \in Sends : \A tc \in DOMAIN toolCallAccumulator[i] :
             toolCallAccumulator[i][tc].input = toolTrack[tc].merged)
    /\ [][\A i \in Sends :
            (Handles(i) /\ Head(queue[i]).type = "TOOL_CALL_ARGS") =>
                /\ last'.op = "handle"
                /\ error' = error
                /\ \A n \in 1..Len(messages') :
                      LET k == FindIndex(ToolResultsOf(messages'[n]),
                                         Head(queue[i]).toolCallId)
                      IN  k # 0 => messages'[n].toolResults[k].input
                                      = toolTrack'[Head(queue[i]).toolCallId].merged]_vars

-----------------------------------------------------------------------------
(* C35: events of a tool call that was never started                        *)

\* C35: a TOOL_CALL_ARGS, TOOL_CALL_END or TOOL_CALL_RESULT event whose
\* toolCallId no TOOL_CALL_START of the run has named is a no-op: nothing is
\* thrown, error and the published messages keep their values, and no tool
\* call is created in the accumulator.
UnstartedToolCallIgnored ==
    [][\A i \in Sends :
          (/\ Handles(i)
           /\ Head(queue[i]).type \in {"TOOL_CALL_ARGS", "TOOL_CALL_END",
                                       "TOOL_CALL_RESULT"}
           /\ toolTrack[Head(queue[i]).toolCallId].named = "")
          => /\ last'.op = "handle"
             /\ messages' = messages
             /\ error' = error
             /\ toolCallAccumulator' = toolCallAccumulator]_vars

\* The result of tc2 was handled, tc2 never started, while tc1 is shown under m1
ResultOfUnstartedCall ==
    /\ last.op = "handle"
    /\ last.event = EvToolResult2
    /\ toolTrack["tc2"].named = ""
    /\ toolTrack["tc1"].phase = "started"
    /\ AttachedTo("m1") = {"tc1"}
    /\ error = Null

-----------------------------------------------------------------------------
(* C36: validateEventSequence                                               *)

TerminalTypes == {"RUN_FINISHED", "RUN_ERROR"}

\* The positions of the terminal events of a sequence
TerminalsOf(events) == {k \in 1..Len(events) : events[k].type \in TerminalTypes}

ReturnsTrue(out) == out = [threw |-> FALSE, value |-> TRUE]
Throws(out, message) == out = [threw |-> TRUE, message |-> message]

\* C36: for a sequence of events that is not empty, validateEventSequence
\* returns true exactly when the first event is RUN_STARTED and the only
\* terminal event (RUN_FINISHED or RUN_ERROR) is the last one; it throws
\* 'Missing RUN_STARTED' when the first event is not RUN_STARTED and, the first
\* event being RUN_STARTED, 'Missing RUN_FINISHED or RUN_ERROR' when the last
\* event is not terminal.
SequenceValidated ==
    LET events == pv.events
    IN  events # <<>> =>
          /\ ReturnsTrue(pv.out) <=>
                 /\ events[1].type = "RUN_STARTED"
                 /\ TerminalsOf(events) = {Len(events)}
          /\ events[1].type # "RUN_STARTED" => Throws(pv.out, "Missing RUN_STARTED")
          /\ (events[1].type = "RUN_STARTED"
                  /\ events[Len(events)].type \notin TerminalTypes)
                 => Throws(pv.out, "Missing RUN_FINISHED or RUN_ERROR")

-----------------------------------------------------------------------------
(* C39: validateEvent and the fields of an event                            *)

\* C39: validateEvent accepts an event only if it has the fields its kind
\* requires: a RUN_STARTED event that it accepts has a threadId and a runId.
RequiredFieldsChecked ==
    \A k \in 1..Len(pv.events) :
        (pv.valid[k] /\ pv.events[k].type = "RUN_STARTED")
        => {"threadId", "runId"} \subseteq DOMAIN pv.events[k]

-----------------------------------------------------------------------------
(* C37: text left in the SSE buffer when the response body ends             *)

\* The body of call i is reported done
BodyEnds(i) == pc[i] = "read" /\ pc'[i] = "done"

\* C37: the text that the SSE buffer holds when the response body ends, a last
\* data line that no newline ends, is never decoded.  Events are dispatched
\* only by reading a chunk, and they are those of the lines of buffer+chunk
\* that a newline ends; the step that ends the body dispatches nothing and
\* changes no published signal but isStreaming; and after it the call
\* dispatches nothing and the buffer keeps its text.
TailNeverDecoded ==
    /\ [][\A i \in Sends :
            (queue[i] = <<>> /\ queue'[i] # <<>>) =>
                /\ Reads(i)
                /\ queue'[i] =
                      DecodeLines(CompleteLines(sseBuffer[i] \o ChunkRead(i))).events]_vars
    /\ [][\A i \in Sends :
            BodyEnds(i) =>
                /\ queue'[i] = <<>>
                /\ sseBuffer' = sseBuffer
                /\ messages' = messages
                /\ agentState' = agentState
                /\ completedSteps' = completedSteps
                /\ error' = error
                /\ currentThreadId' = currentThreadId
                /\ currentRunId' = currentRunId
                /\ onMessageCalls' = onMessageCalls]_vars
    /\ [][\A i \in Sends :
            pc[i] = "done" =>
                /\ pc'[i] = "done"
                /\ queue'[i] = <<>>
                /\ sseBuffer'[i] = sseBuffer[i]
                /\ messages' = messages]_vars

\* The body ended after the records of TEXT_MESSAGE_START(m1) and of the delta
\* "a", and a data line with the delta "b" that no newline ends: m1 is
\* published with the content "a", the line is still in the buffer
UndecodedTail ==
    /\ pc[1] = "done"
    /\ sseBuffer[1] = Unterminated(Stringify(EvContentM1b))
    /\ Len(messages) = 2
    /\ messages[2].id = "m1"
    /\ messages[2].content = <<"a">>
    /\ msgTrack["m1"].received = <<"a">>
    /\ ~isStreaming
    /\ error = Null

-----------------------------------------------------------------------------
(* C38: TEXT_MESSAGE_CHUNK events without messageId                         *)

\* C38: a TEXT_MESSAGE_CHUNK event that carries no messageId leaves every
\* published message as it was and publishes one more, last, whose id was just
\* generated (no published message and no event has it) and whose content is
\* the delta of the event.
AnonymousChunkPublished ==
    [][\A i \in Sends :
          (/\ Handles(i)
           /\ Head(queue[i]).type = "TEXT_MESSAGE_CHUNK"
           /\ ~Truthy(Field(Head(queue[i]), "messageId")))
          => /\ last'.op = "handle"
             /\ Len(messages') = Len(messages) + 1
             /\ SubSeq(messages', 1, Len(messages)) = messages
             /\ uuids' = uuids + 1
             /\ messages'[Len(messages')].id = UUID(uuids')
             /\ messages'[Len(messages')].id \notin MessageIds
             /\ \A n \in 1..Len(messages) :
                   messages[n].id # messages'[Len(messages')].id
             /\ messages'[Len(messages')].content = Head(queue[i]).delta
             /\ messages'[Len(messages')].role = "assistant"]_vars

\* Two chunks without messageId were handled after a chunk for m1: three
\* messages follow the user's
TwoAnonymousChunks ==
    /\ last.op = "handle"
    /\ last.event = EvChunkNoId2
    /\ Len(messages) = 4
    /\ messages[2].id = "m1"
    /\ messages[3].content = <<"c">>
    /\ messages[4].content = <<"d">>
    /\ messages[3].id # messages[4].id

-----------------------------------------------------------------------------
(* C40: the Composer and maxLength                                          *)

\* C40: the Composer never passes to onSend a message longer than maxLength,
\* and while the input is longer than maxLength no step, a click on the send
\* button or the Enter key, calls onSend.
NeverSendsOverLimit ==
    /\ [](\A k \in 1..Len(pv.onSend) : Len(pv.onSend[k]) <= ComposerMaxLength)
    /\ [][isOverLimit(pv) => pv'.onSend = pv.onSend]_vars

====
